---------------------------- MODULE Spec2Model ----------------------------
(***************************************************************************)
(* muzoGPT: persisted chat threads, a streaming chat route with            *)
(* confirmation-gated XLSX tools, and the edit/regenerate controller.      *)
(*                                                                         *)
(* Strings are modelled as sequences of tokens: a token is either one of   *)
(* the characters the code inspects (" ", "@") or an opaque chunk that     *)
(* contains none of them.  An exception is modelled as a result record     *)
(* with ok = FALSE.                                                        *)
(***************************************************************************)
EXTENDS Integers, Sequences, FiniteSets, TLC

VARIABLES
    schema,        \* tables present in the SQLite file            (db/client.ts getDb)
    threads,       \* rows of table threads, in rowid order
    messages,      \* rows of table messages, in rowid order
    now,           \* Date.now()
    nextId,        \* the next crypto.randomUUID() of a message
    nextThread,    \* the next crypto.randomUUID() of a thread
    fileExists,    \* data/example.xlsx is on disk                 (tools/xlsx.ts)
    workbook,      \* the contents of data/example.xlsx
    writers,       \* the processes that call updateCell on the file
    apiKey,        \* process.env.OPENAI_API_KEY is set
    turns,         \* the chat requests in flight                  (api/chat/route.ts POST)
    client         \* the state of the ChatThread component        (ChatPage.tsx)

vars == <<schema, threads, messages, now, nextId, nextThread, fileExists, workbook,
          writers, apiKey, turns, client>>

storeVars == <<schema, threads, messages, now, nextId, nextThread>>
bookVars  == <<fileExists, workbook, writers>>

-----------------------------------------------------------------------------
(* Bounds of the model. *)

MaxClock == 2      \* Date.now() takes the values 1..MaxClock
MaxIds   == 2      \* rows the server ever inserts (ids are never reused)
MaxTurns == 1      \* chat requests in flight at once
MaxText  == 2      \* fragments the model streams in one turn
MaxCalls == 1      \* tool calls the model makes in one turn

MaxThreads == 2    \* threads ever created

\* An absent (undefined) string, as a token sequence no real string equals.
NoString == <<"<undefined>">>

-----------------------------------------------------------------------------
(* Strings as token sequences. *)

IsSpace(tok) == tok \in {" ", "\n"}

\* String.prototype.trim
RECURSIVE TrimLeft(_)
TrimLeft(s) == IF s # <<>> /\ IsSpace(Head(s)) THEN TrimLeft(Tail(s)) ELSE s

RECURSIVE TrimRight(_)
TrimRight(s) ==
    IF s # <<>> /\ IsSpace(s[Len(s)]) THEN TrimRight(SubSeq(s, 1, Len(s) - 1)) ELSE s

Trim(s) == TrimRight(TrimLeft(s))

\* String.prototype.includes("@")
IncludesAt(s) == \E i \in 1..Len(s) : s[i] = "@"

\* typeof v === "string"
IsString(s) == s # NoString

\* body.threadId?.trim()
TrimOpt(s) == IF s = NoString THEN NoString ELSE Trim(s)

\* !s for an optional string: undefined and "" are falsy
Falsy(s) == s = NoString \/ s = <<>>

-----------------------------------------------------------------------------
(* The thread/message store: src/lib/db.                                   *)

Roles == {"system", "user", "assistant", "tool"}

\* Tables the schema initialization of getDb creates.
SchemaTables == {"threads", "messages"}

\* Tables the statements prepared by getStatements refer to.
StatementTables == {"threads", "messages", "uploads"}

\* db.prepare throws "no such table" for a statement on a missing table, so
\* getStatements returns only when every table it names exists.
GetStatementsOk == StatementTables \subseteq schema

\* crypto.randomUUID() for a thread: the n-th thread id.
ThreadName == <<"t1", "t2", "t3">>
ThreadId(n) == <<ThreadName[n]>>

Rows(seq) == {seq[i] : i \in 1..Len(seq)}

ThreadIdsOf(ths) == {ths[i].id : i \in 1..Len(ths)}
MessageIdsOf(msgs) == {msgs[i].id : i \in 1..Len(msgs)}

\* ORDER BY created_at ASC over the index (thread_id, created_at): rows with
\* equal created_at come out in rowid order.
RECURSIVE InsertByCreatedAt(_, _)
InsertByCreatedAt(sorted, row) ==
    IF sorted = <<>> THEN <<row>>
    ELSE IF Head(sorted).created_at <= row.created_at
         THEN <<Head(sorted)>> \o InsertByCreatedAt(Tail(sorted), row)
         ELSE <<row>> \o sorted

RECURSIVE OrderByCreatedAt(_)
OrderByCreatedAt(rows) ==
    IF rows = <<>> THEN <<>>
    ELSE InsertByCreatedAt(OrderByCreatedAt(SubSeq(rows, 1, Len(rows) - 1)),
                           rows[Len(rows)])

\* LIMIT ? OFFSET ?
LimitOffset(rows, limit, offset) ==
    SubSeq(rows, offset + 1, IF offset + limit < Len(rows) THEN offset + limit ELSE Len(rows))

DefaultLimit == 200

\* getMessagesByThread(threadId, limit = 200, offset = 0) on given rows
ListMessagesIn(msgs, threadId, limit, offset) ==
    LET OfThread(m) == m.thread_id = threadId
    IN  LimitOffset(OrderByCreatedAt(SelectSeq(msgs, OfThread)), limit, offset)

getMessagesByThread(threadId) == ListMessagesIn(messages, threadId, DefaultLimit, 0)

\* The insert with foreign keys not enforced: only the primary key is checked.
InsertMessageUnchecked(m) ==
    /\ GetStatementsOk
    /\ m.id \notin MessageIdsOf(messages)

\* INSERT INTO messages: the primary key and the foreign key to threads
\* (PRAGMA foreign_keys = ON) are checked by SQLite.
InsertMessageOk(m) ==
    /\ GetStatementsOk
    /\ m.id \notin MessageIdsOf(messages)
    /\ m.thread_id \in ThreadIdsOf(threads)

\* saveMessage(input): input.createdAt = 0 stands for an absent createdAt.
\* The result carries the row and whether the insert threw.
saveMessage(threadId, role, content, createdAt) ==
    LET message == [id         |-> nextId,
                    thread_id  |-> threadId,
                    role       |-> role,
                    content    |-> content,
                    created_at |-> IF createdAt = 0 THEN now ELSE createdAt]
    IN  [ok       |-> InsertMessageOk(message),
         message  |-> message,
         messages |-> IF InsertMessageOk(message) THEN Append(messages, message)
                      ELSE messages]

\* DELETE FROM threads WHERE id = ?, with ON DELETE CASCADE on messages.
ThreadsWithout(threadId) ==
    LET Other(t) == t.id # threadId IN SelectSeq(threads, Other)

\* The rows left when the foreign key does not cascade.
NoCascade(threadId) == messages

\* The rows ON DELETE CASCADE leaves when the thread row is deleted.
CascadeDelete(threadId) ==
    LET Other(m) == m.thread_id # threadId IN SelectSeq(messages, Other)

\* An update that also stamps the row with the time of the edit.
MessagesTouched(id, content) ==
    [i \in 1..Len(messages) |->
        IF messages[i].id = id
        THEN [messages[i] EXCEPT !.content = content, !.created_at = now]
        ELSE messages[i]]

\* UPDATE messages SET content = ? WHERE id = ?
MessagesUpdated(id, content) ==
    [i \in 1..Len(messages) |->
        IF messages[i].id = id THEN [messages[i] EXCEPT !.content = content]
        ELSE messages[i]]

\* DELETE FROM messages WHERE id = ?
MessagesWithout(id) ==
    LET Other(m) == m.id # id IN SelectSeq(messages, Other)

\* The rows left by a statement whose bound is inclusive (created_at >= ?).
MessagesBefore(threadId, createdAt) ==
    LET Kept(m) == ~(m.thread_id = threadId /\ m.created_at >= createdAt)
    IN  SelectSeq(messages, Kept)

\* DELETE FROM messages WHERE thread_id = ? AND created_at > ?
MessagesNotAfter(threadId, createdAt) ==
    LET Kept(m) == ~(m.thread_id = threadId /\ m.created_at > createdAt)
    IN  SelectSeq(messages, Kept)

-----------------------------------------------------------------------------
(* The dataset engine: src/lib/tools/xlsx.ts.                              *)
(* A JavaScript value is [type, v] with type its typeof ("null" for null)  *)
(* and v its text; a cell object is [t, v, f] as SheetJS keeps it, f = ""  *)
(* when the cell has no formula.                                           *)

JsNull == [type |-> "null", v |-> ""]
JsString(x) == [type |-> "string", v |-> x]
JsNumber(x) == [type |-> "number", v |-> x]
JsBoolean(x) == [type |-> "boolean", v |-> x]

NoCell == [t |-> "z", v |-> "", f |-> ""]

\* Column letters and row digits of the A1 notation, in index order.
ColLetters == <<"A", "B", "C", "D", "E", "F">>
RowDigits  == <<"1", "2", "3", "4", "5", "6", "7">>

IndexOf(seq, x) == CHOOSE i \in 1..Len(seq) : seq[i] = x

\* The column letters and the row digits of a string, in order. The strings
\* of the model hold at most one of each, besides characters that are neither
\* ("$", "?").
IsLetter(tok) == \E i \in 1..Len(ColLetters) : ColLetters[i] = tok
IsDigit(tok) == \E i \in 1..Len(RowDigits) : RowDigits[i] = tok
Letters(s) == SelectSeq(s, IsLetter)
Digits(s) == SelectSeq(s, IsDigit)

\* XLSX.utils.decode_cell (zero-based row and column): the upper-case letters
\* give the column and the digits the row, any other character is skipped,
\* and a string without letters (digits) gives column (row) -1.
decode_cell(s) ==
    [r |-> IF Digits(s) = <<>> THEN 0 - 1 ELSE IndexOf(RowDigits, Digits(s)[1]) - 1,
     c |-> IF Letters(s) = <<>> THEN 0 - 1 ELSE IndexOf(ColLetters, Letters(s)[1]) - 1]

\* XLSX.utils.encode_cell: encode_col throws on a negative column, encode_row
\* gives "0" for row -1.
EncodeThrows(a) == a.c < 0
encode_cell(a) == <<ColLetters[a.c + 1], IF a.r < 0 THEN "0" ELSE RowDigits[a.r + 1]>>

\* XLSX.utils.decode_range / encode_range: the string is cut at its first ":".
decode_range(s) ==
    LET colons == {i \in 1..Len(s) : s[i] = ":"}
    IN  IF colons = {} THEN [s |-> decode_cell(s), e |-> decode_cell(s)]
        ELSE LET idx == CHOOSE i \in colons : \A j \in colons : i <= j
             IN  [s |-> decode_cell(SubSeq(s, 1, idx - 1)),
                  e |-> decode_cell(SubSeq(s, idx + 1, Len(s)))]

encode_range(rg) ==
    IF rg.s = rg.e THEN encode_cell(rg.s)
    ELSE encode_cell(rg.s) \o <<":">> \o encode_cell(rg.e)

AllCellStrings ==
    {<<ColLetters[c], RowDigits[r]>> : c \in 1..Len(ColLetters), r \in 1..Len(RowDigits)}

\* The sample workbook written by scripts/generate-xlsx.ts.
SeedData ==
    << <<JsString("Item"), JsString("Quantity"), JsString("Price"), JsString("Total"),
         JsString("Notes")>>,
       <<JsString("Widget"), JsNumber("5"), JsNumber("10.5"), JsNumber("52.5"),
         JsString("In Stock")>>,
       <<JsString("Gadget"), JsNumber("2"), JsNumber("25"), JsNumber("50"),
         JsString("Low Stock")>>,
       <<JsString("Doodad"), JsNumber("10"), JsNumber("1.99"), JsNumber("19.9"),
         JsString("Clearance")>>,
       <<JsString("Thingamajig"), JsNumber("1"), JsNumber("99.99"), JsNumber("99.99"),
         JsString("Special Order")>>,
       <<JsString("Doohickey"), JsNumber("0"), JsNumber("5"), JsNumber("0"),
         JsString("Out of Stock")>> >>

\* The cell type tag updateCell (and aoa_to_sheet) derives from typeof.
CellTypeOf(value) ==
    IF value.type = "number" THEN "n" ELSE IF value.type = "boolean" THEN "b" ELSE "s"

CellOf(value) == [t |-> CellTypeOf(value), v |-> value.v, f |-> ""]

SeedSheet ==
    [cells |-> [k \in AllCellStrings |->
                  LET a == decode_cell(k)
                  IN  IF a.r + 1 <= Len(SeedData) /\ a.c + 1 <= Len(SeedData[1])
                      THEN CellOf(SeedData[a.r + 1][a.c + 1])
                      ELSE NoCell],
     ref   |-> <<"A", "1", ":", "E", "6">>]

SeedWorkbook ==
    [SheetNames |-> <<"Sheet1">>, Sheets |-> [n \in {"Sheet1"} |-> SeedSheet]]

\* Date.prototype.toISOString of the date values the model stores.
IsoString(d) == IF d = "2024-01-02" THEN "2024-01-02T00:00:00.000Z" ELSE d

\* normalizeCellValue(cell)
normalizeCellValue(cell) ==
    IF cell = NoCell \/ cell.t = "z" THEN JsNull
    ELSE IF cell.t = "d" THEN JsString(IsoString(cell.v))
    ELSE IF cell.t = "n" THEN JsNumber(cell.v)
    ELSE IF cell.t = "s" THEN JsString(cell.v)
    ELSE IF cell.t = "b" THEN JsBoolean(cell.v)
    ELSE JsString(cell.v)

\* sheet[key]: the cell object stored under a key, or undefined
CellAt(sheet, key) == IF key \in DOMAIN sheet.cells THEN sheet.cells[key] ELSE NoCell

\* A load that goes on without the check for the file.
LoadOkUnchecked == TRUE

\* loadWorkbook(): throws when the file is missing (ensureWorkbookExists)
LoadOk == fileExists

\* getSheet(workbook, sheetName): "" stands for an absent sheetName
TargetSheet(wb, sheetName) ==
    IF sheetName # "" THEN sheetName
    ELSE IF wb.SheetNames # <<>> THEN wb.SheetNames[1] ELSE ""

GetSheetOk(wb, sheetName) ==
    /\ TargetSheet(wb, sheetName) # ""
    /\ TargetSheet(wb, sheetName) \in DOMAIN wb.Sheets

\* A getRange whose loops run over the columns first.
getRangeInColumnsOuter(wb, range, sheetName) ==
    IF ~GetSheetOk(wb, sheetName)
    THEN [ok |-> FALSE, message |-> "Sheet not found", values |-> <<>>]
    ELSE LET rg    == decode_range(range)
             sheet == wb.Sheets[TargetSheet(wb, sheetName)]
         IN  [ok      |-> TRUE,
              message |-> "",
              values  |-> [col \in 1..(rg.e.c - rg.s.c + 1) |->
                            [row \in 1..(rg.e.r - rg.s.r + 1) |->
                               normalizeCellValue(CellAt(sheet,
                                   encode_cell([r |-> rg.s.r + row - 1,
                                                c |-> rg.s.c + col - 1])))]]]

\* getRange(range, sheetName) on the workbook wb that loadWorkbook returned:
\* the loops call encode_cell for every address from rg.s to rg.e.
getRangeIn(wb, range, sheetName) ==
    IF ~GetSheetOk(wb, sheetName)
    THEN [ok |-> FALSE, message |-> "Sheet not found", values |-> <<>>]
    ELSE LET rg == decode_range(range)
         IN
         IF rg.s.r <= rg.e.r /\ rg.s.c <= rg.e.c /\ EncodeThrows(rg.s)
         THEN [ok |-> FALSE, message |-> "invalid column -1", values |-> <<>>]
         ELSE
         LET sheet == wb.Sheets[TargetSheet(wb, sheetName)]
         IN  [ok      |-> TRUE,
              message |-> "",
              values  |-> [row \in 1..(rg.e.r - rg.s.r + 1) |->
                            [col \in 1..(rg.e.c - rg.s.c + 1) |->
                               normalizeCellValue(CellAt(sheet,
                                   encode_cell([r |-> rg.s.r + row - 1,
                                                c |-> rg.s.c + col - 1])))]]]

\* getRange(range, sheetName)
getRange(range, sheetName) ==
    IF ~LoadOk THEN [ok |-> FALSE, message |-> "Missing XLSX file", values |-> <<>>]
    ELSE getRangeIn(workbook, range, sheetName)

Min(a, b) == IF a < b THEN a ELSE b
Max(a, b) == IF a > b THEN a ELSE b

\* A !ref update that forgets the previous used range.
ExtendedRefToCell(ref, a) == encode_range([s |-> a, e |-> a])

\* The used range after a write at address a (xlsx.ts 219-227).
ExtendedRef(ref, a) ==
    LET rg == IF ref # NoString THEN decode_range(ref) ELSE [s |-> a, e |-> a]
    IN  encode_range([s |-> [r |-> Min(a.r, rg.s.r), c |-> Min(a.c, rg.s.c)],
                      e |-> [r |-> Max(a.r, rg.e.r), c |-> Max(a.c, rg.e.c)]])

\* The sheet after sheet[cell] = {t, v} or delete sheet[cell], and the !ref update.
SheetWritten(sheet, cell, value) ==
    IF value.type = "null"
    THEN [sheet EXCEPT !.cells = [k \in DOMAIN sheet.cells |->
                                     IF k = cell THEN NoCell ELSE sheet.cells[k]]]
    ELSE [cells |-> [k \in (DOMAIN sheet.cells) \cup {cell} |->
                       IF k = cell THEN CellOf(value) ELSE sheet.cells[k]],
          ref   |-> ExtendedRef(sheet.ref, decode_cell(cell))]

\* The address k lies in the used range ref.
InRef(k, ref) ==
    /\ ref # NoString
    /\ LET rg == decode_range(ref)
           a  == decode_cell(k)
       IN  /\ rg.s.r <= a.r /\ a.r <= rg.e.r
           /\ rg.s.c <= a.c /\ a.c <= rg.e.c

\* XLSX.writeFile then XLSX.readFile: the writer walks the addresses of the
\* used range and looks each up by its encode_cell key, so a cell under any
\* other key, or outside the used range, is not in the file.
Persisted(sheet) ==
    [cells |-> [k \in AllCellStrings |->
                  IF InRef(k, sheet.ref) THEN CellAt(sheet, k) ELSE NoCell],
     ref   |-> sheet.ref]

\* updateCell(cell, value, sheetName) on the workbook wb that loadWorkbook
\* returned: the result, whether XLSX.writeFile was reached, and the document
\* it serializes, which is wb whole with the one cell changed.
updateCellIn(wb, cell, value, sheetName) ==
    LET name == IF sheetName # "" THEN sheetName
                ELSE IF wb.SheetNames # <<>> THEN wb.SheetNames[1]
                ELSE "Sheet1"
    IN  IF ~GetSheetOk(wb, name)
        THEN [ok |-> FALSE, message |-> "Sheet not found", updated |-> JsNull,
              written |-> FALSE, workbook |-> wb]
        ELSE IF value.type # "null" /\ EncodeThrows(decode_cell(cell))
        THEN [ok |-> FALSE, message |-> "invalid column -1", updated |-> JsNull,
              written |-> FALSE, workbook |-> wb]
        ELSE [ok       |-> TRUE,
              message  |-> "",
              updated  |-> value,
              written  |-> TRUE,
              workbook |-> [wb EXCEPT
                              !.Sheets[name] =
                                  Persisted(SheetWritten(wb.Sheets[name], cell, value))]]

\* updateCell(cell, value, sheetName): the result and the file it leaves.
updateCell(cell, value, sheetName) ==
    IF ~LoadOk
    THEN [ok |-> FALSE, message |-> "Missing XLSX file", updated |-> JsNull,
          written |-> FALSE, workbook |-> workbook]
    ELSE updateCellIn(workbook, cell, value, sheetName)

\* explainFormula(cell, sheetName): the formula text, "" when there is none
explainFormula(cell, sheetName) ==
    LET name == IF sheetName # "" THEN sheetName
                ELSE IF workbook.SheetNames # <<>> THEN workbook.SheetNames[1]
                ELSE "Sheet1"
    IN  IF ~LoadOk THEN [ok |-> FALSE, message |-> "Missing XLSX file", formula |-> ""]
        ELSE IF ~GetSheetOk(workbook, name)
        THEN [ok |-> FALSE, message |-> "Sheet not found", formula |-> ""]
        ELSE [ok |-> TRUE, message |-> "",
              formula |-> CellAt(workbook.Sheets[name], cell).f]

-----------------------------------------------------------------------------
(* Processes that call updateCell on the one file: a server process and any *)
(* other (a second server instance, the system check script). Inside one   *)
(* process a call runs from its load to its write without interruption;    *)
(* between processes nothing orders the loads and the writes.              *)

Writers == {"w1", "w2"}

IdleWriter ==
    [pc |-> "idle", loaded |-> SeedWorkbook, cell |-> NoString, value |-> JsNull,
     sheetName |-> "", message |-> ""]

IdleWriters == [w \in Writers |-> IdleWriter]

\* A writer that serializes the file as it is at the time of its write.
WriterBaseReread(w) == workbook

\* The workbook object a writer changes and serializes: the one it loaded.
WriterBase(w) == writers[w].loaded

\* updateCell up to the return of loadWorkbook and getSheet; a throw there
\* ends the call.
WriterLoad(w, cell, value, sheetName) ==
    /\ writers[w].pc # "loaded"
    /\ LoadOk
    /\ GetSheetOk(workbook, TargetSheet(workbook, sheetName))
    /\ writers' = [writers EXCEPT ![w] =
            [pc |-> "loaded", loaded |-> workbook, cell |-> cell, value |-> value,
             sheetName |-> sheetName, message |-> ""]]
    /\ UNCHANGED <<storeVars, fileExists, workbook, apiKey, turns, client>>

\* updateCell from the cell write to XLSX.writeFile, which creates or
\* replaces the file with the whole document.
WriterWrite(w) ==
    /\ writers[w].pc = "loaded"
    /\ LET res == updateCellIn(WriterBase(w), writers[w].cell, writers[w].value,
                               writers[w].sheetName)
       IN  IF res.ok
           THEN /\ workbook' = res.workbook
                /\ fileExists' = TRUE
                /\ writers' = [writers EXCEPT ![w].pc = "written",
                                              ![w].loaded = SeedWorkbook]
           ELSE /\ writers' = [writers EXCEPT ![w] = IdleWriter]
                /\ UNCHANGED <<fileExists, workbook>>
    /\ UNCHANGED <<storeVars, apiKey, turns, client>>

\* One call of updateCell by a process, from its load to its return or its
\* throw: XLSX.writeFile, when the call reaches it, creates or replaces the
\* file.
CallUpdateCell(w, cell, value, sheetName) ==
    /\ LET res == updateCell(cell, value, sheetName)
       IN  /\ workbook' = res.workbook
           /\ fileExists' = (fileExists \/ res.written)
           /\ writers' = [writers EXCEPT ![w] =
                   [pc |-> IF res.ok THEN "written" ELSE "failed",
                    loaded |-> SeedWorkbook, cell |-> cell, value |-> value,
                    sheetName |-> sheetName, message |-> res.message]]
    /\ UNCHANGED <<storeVars, apiKey, turns, client>>

\* The operator adds data/example.xlsx, as the error message asks.
RestoreFile ==
    /\ ~fileExists
    /\ fileExists' = TRUE
    /\ workbook' = SeedWorkbook
    /\ UNCHANGED <<storeVars, writers, apiKey, turns, client>>

-----------------------------------------------------------------------------
(* The tool registry of the chat route: src/app/api/chat/route.ts 119-330. *)
(* A tool call is [name, sheet, target, value, confirmed, actionId]; its   *)
(* outcome is the status of the value execute returns, whether execute     *)
(* threw instead (raised), and the workbook file it leaves.                *)

ToolCall(name, sheet, target, value, confirmed, actionId) ==
    [name |-> name, sheet |-> sheet, target |-> target, value |-> value,
     confirmed |-> confirmed, actionId |-> actionId]

\* Contained without its catch: an engine failure is thrown on to the caller.
Uncontained(result, okStatus) ==
    [status |-> IF result.ok THEN okStatus ELSE "error", raised |-> ~result.ok]

\* try { return {status: okStatus, result} } catch { return {status: "error", message} }
Contained(result, okStatus) ==
    [status |-> IF result.ok THEN okStatus ELSE "error", raised |-> FALSE]

\* confirmAction.execute: always needs_confirmation
confirmActionTool(args) ==
    [status |-> "needs_confirmation", raised |-> FALSE, workbook |-> workbook]

\* getRange.execute
getRangeTool(args) ==
    LET out == Contained(getRange(args.target, args.sheet), "ok")
    IN  [status |-> out.status, raised |-> out.raised, workbook |-> workbook]

\* The gate as args.confirmed === false: only an explicit false holds the write back.
NotConfirmedOnlyFalse(args) == args.confirmed = "false"

\* !args.confirmed of the updateCell tool
NotConfirmed(args) == args.confirmed # "true"

\* updateCell.execute: the confirmation gate, then the engine write
updateCellTool(args) ==
    IF NotConfirmed(args)
    THEN [status |-> "needs_confirmation", raised |-> FALSE, workbook |-> workbook]
    ELSE LET result == updateCell(args.target, args.value, args.sheet)
             out    == Contained(result, "updated")
         IN  [status |-> out.status, raised |-> out.raised, workbook |-> result.workbook]

\* explainFormula.execute
explainFormulaTool(args) ==
    LET out == Contained(explainFormula(args.target, args.sheet), "ok")
    IN  [status |-> out.status, raised |-> out.raised, workbook |-> workbook]

\* openTable.execute and highlightCells.execute: the arguments, returned as they are
renderTool(args) == [status |-> "ok", raised |-> FALSE, workbook |-> workbook]

ToolNames ==
    {"confirmAction", "getRange", "updateCell", "openTable", "highlightCells",
     "explainFormula"}

Execute(call) ==
    IF call.name = "confirmAction" THEN confirmActionTool(call)
    ELSE IF call.name = "getRange" THEN getRangeTool(call)
    ELSE IF call.name = "updateCell" THEN updateCellTool(call)
    ELSE IF call.name = "explainFormula" THEN explainFormulaTool(call)
    ELSE renderTool(call)

-----------------------------------------------------------------------------
(* The chat route: src/app/api/chat/route.ts POST.                         *)

Turns == 1..MaxTurns

NoMessage == [role |-> "none", content |-> NoString]

\* A request body that is not JSON has no fields.
InvalidJson == [json |-> FALSE, threadId |-> NoString, last |-> NoMessage, fileIds |-> FALSE]

Body(threadId, last, fileIds) ==
    [json |-> TRUE, threadId |-> threadId, last |-> last, fileIds |-> fileIds]

\* The locals of one request: threadId and lastMessage once the handler has
\* computed them, the response (status, error), the tools streamText was given,
\* the text accumulated so far, the tool calls of the turn, and the rows saved.
IdleTurn ==
    [pc |-> "idle", status |-> 0, error |-> "", threadId |-> NoString, last |-> NoMessage,
     tools |-> FALSE, text |-> <<>>, calls |-> <<>>, userMsg |-> 0, asstMsg |-> 0,
     origin |-> "none"]

\* const threadId = body.threadId?.trim()
ThreadOf(body) == TrimOpt(body.threadId)

\* The validation with threadId tested before it is trimmed.
ValidRequestUntrimmed(body) == body.json /\ ~Falsy(body.threadId)

\* The validation of route.ts 67-83: the body parsed and threadId is not blank.
ValidRequest(body) == body.json /\ ~Falsy(ThreadOf(body))

\* A route that never saves the last message.
PersistsNoMessage(last) == FALSE

\* lastMessage?.role === "user" && typeof lastMessage.content === "string"
PersistsUserMessage(last) == last.role = "user" /\ IsString(last.content)

\* shouldUseTools without the test of the role of the last message.
shouldUseToolsAnyRole(last) == IsString(last.content) /\ IncludesAt(last.content)

\* shouldUseTools (route.ts 113-116)
shouldUseTools(last) ==
    /\ last.role = "user"
    /\ IsString(last.content)
    /\ IncludesAt(last.content)

\* The loop over fileIds calls getUploadById, which throws when getStatements does.
UploadLookupOk(body) == body.fileIds => GetStatementsOk

Rejected(error, origin) ==
    [IdleTurn EXCEPT !.pc = "rejected", !.status = 400, !.error = error, !.origin = origin]

\* The request after the user-message step: the API key check, the tool set,
\* the upload context, and the call of streamText.
Started(body, origin, userMsg) ==
    LET turn == [IdleTurn EXCEPT !.threadId = ThreadOf(body), !.last = body.last,
                                 !.origin = origin, !.userMsg = userMsg]
    IN  IF ~apiKey
        THEN [turn EXCEPT !.pc = "failed", !.status = 500, !.error = "Missing OPENAI_API_KEY"]
        ELSE IF ~UploadLookupOk(body)
        THEN [turn EXCEPT !.pc = "failed", !.status = 500, !.error = "no such table"]
        ELSE [turn EXCEPT !.pc = "generating", !.status = 200,
                          !.tools = shouldUseTools(body.last)]

\* A route that goes on to the generation when the user message was not saved.
PersistFailedIgnored(body, origin) == Started(body, origin, 0)

\* The catch of the user-message step: 500 "Failed to persist user message".
PersistFailed(body, origin) ==
    [IdleTurn EXCEPT !.pc = "failed", !.status = 500,
                     !.error = "Failed to persist user message",
                     !.threadId = ThreadOf(body),
                     !.last = body.last, !.origin = origin]

\* POST: validate, persist the last user message, start the generation.
POST(t, body, origin) ==
    /\ turns[t].pc = "idle"
    /\ IF ~body.json
       THEN /\ turns' = [turns EXCEPT ![t] = Rejected("Invalid JSON body", origin)]
            /\ UNCHANGED <<messages, nextId>>
       ELSE IF ~ValidRequest(body)
       THEN /\ turns' = [turns EXCEPT ![t] = Rejected("threadId is required", origin)]
            /\ UNCHANGED <<messages, nextId>>
       ELSE IF ~PersistsUserMessage(body.last)
       THEN /\ turns' = [turns EXCEPT ![t] = Started(body, origin, 0)]
            /\ UNCHANGED <<messages, nextId>>
       ELSE LET saved == saveMessage(ThreadOf(body), "user", body.last.content, 0)
            IN  IF saved.ok
                THEN /\ messages' = saved.messages
                     /\ nextId' = nextId + 1
                     /\ turns' = [turns EXCEPT ![t] =
                                    Started(body, origin, saved.message.id)]
                ELSE /\ turns' = [turns EXCEPT ![t] = PersistFailed(body, origin)]
                     /\ UNCHANGED <<messages, nextId>>
    /\ UNCHANGED <<schema, threads, now, nextThread, bookVars, apiKey>>

\* A request to the chat route that does not come from the page.
ChatPost(t, body, origin) ==
    /\ POST(t, body, origin)
    /\ UNCHANGED client

\* The model streams a text fragment.
GenText(t, frag) ==
    /\ turns[t].pc = "generating"
    /\ Len(turns[t].text) < MaxText
    /\ turns' = [turns EXCEPT ![t].text = Append(@, frag)]
    /\ UNCHANGED <<storeVars, bookVars, apiKey, client>>

\* The record the turn keeps of a tool call.
CallRecord(call, out) ==
    [name |-> call.name, confirmed |-> call.confirmed, actionId |-> call.actionId,
     status |-> IF out.raised THEN "raised" ELSE out.status, resolved |-> "no"]

\* The model requests a tool call and the SDK runs the tool's execute; an
\* execute that throws aborts the turn.
GenToolCall(t, call) ==
    /\ turns[t].pc = "generating"
    /\ turns[t].tools
    /\ Len(turns[t].calls) < MaxCalls
    /\ LET out == Execute(call)
       IN  /\ workbook' = out.workbook
           /\ turns' = [turns EXCEPT ![t] =
                 [@ EXCEPT !.calls = Append(@, CallRecord(call, out)),
                           !.pc = IF out.raised THEN "failed" ELSE @]]
    /\ UNCHANGED <<storeVars, fileExists, writers, apiKey, client>>

\* The generation fails (model unreachable, stream error): onFinish is not called.
GenError(t) ==
    /\ turns[t].pc = "generating"
    /\ turns' = [turns EXCEPT ![t].pc = "failed", ![t].error = "generation failed"]
    /\ UNCHANGED <<storeVars, bookVars, apiKey, client>>

\* onFinish without the empty-text test: it saves whatever text it is given.
SkipsNothing(text) == FALSE

\* text.trim().length === 0 in onFinish
SkipsEmptyText(text) == Len(Trim(text)) = 0

\* The generation completes and streamText calls onFinish({ text }).
GenFinish(t) ==
    /\ turns[t].pc = "generating"
    /\ IF SkipsEmptyText(turns[t].text)
       THEN /\ turns' = [turns EXCEPT ![t].pc = "done"]
            /\ UNCHANGED <<messages, nextId>>
       ELSE LET saved == saveMessage(turns[t].threadId, "assistant", turns[t].text, 0)
            IN  IF saved.ok
                THEN /\ messages' = saved.messages
                     /\ nextId' = nextId + 1
                     /\ turns' = [turns EXCEPT ![t] =
                            [@ EXCEPT !.pc = "done", !.asstMsg = saved.message.id]]
                ELSE /\ turns' = [turns EXCEPT ![t].pc = "done"]
                     /\ UNCHANGED <<messages, nextId>>
    /\ UNCHANGED <<schema, threads, now, nextThread, bookVars, apiKey, client>>

\* The response has been delivered; the request is over.
Release(t) ==
    /\ turns[t].origin = "api"
    /\ turns[t].pc \in {"rejected", "failed", "done"}
    /\ turns' = [turns EXCEPT ![t] = IdleTurn]
    /\ UNCHANGED <<storeVars, bookVars, apiKey, client>>

-----------------------------------------------------------------------------
(* Store operations as steps.                                              *)

\* Date.now() advances.
Tick ==
    /\ now < MaxClock
    /\ now' = now + 1
    /\ UNCHANGED <<schema, threads, messages, nextId, nextThread, bookVars, apiKey,
                   turns, client>>

\* createThread({ title })
CreateThread(title) ==
    /\ nextThread <= MaxThreads
    /\ GetStatementsOk
    /\ threads' = Append(threads, [id |-> ThreadId(nextThread), title |-> title,
                                   created_at |-> now])
    /\ nextThread' = nextThread + 1
    /\ UNCHANGED <<schema, messages, now, nextId, bookVars, apiKey, turns, client>>

\* saveMessage(input) called on the store; a call that throws changes nothing.
SaveMessage(threadId, role, content, createdAt) ==
    LET saved == saveMessage(threadId, role, content, createdAt)
    IN  /\ saved.ok
        /\ messages' = saved.messages
        /\ nextId' = nextId + 1
        /\ UNCHANGED <<schema, threads, now, nextThread, bookVars, apiKey, turns, client>>

\* deleteThread(threadId): one DELETE statement; the cascade runs inside it.
DeleteThread(threadId) ==
    /\ GetStatementsOk
    /\ threads' = ThreadsWithout(threadId)
    /\ messages' = CascadeDelete(threadId)
    /\ UNCHANGED <<schema, now, nextId, nextThread, bookVars, apiKey, turns, client>>

\* deleteMessagesAfter(threadId, createdAt): one DELETE statement; a statement
\* that matches no row succeeds.
DeleteMessagesAfter(threadId, createdAt) ==
    /\ GetStatementsOk
    /\ messages' = MessagesNotAfter(threadId, createdAt)
    /\ UNCHANGED <<schema, threads, now, nextId, nextThread, bookVars, apiKey, turns, client>>

\* updateMessage({ id, content }): one UPDATE statement; a statement that
\* matches no row succeeds.
UpdateMessage(id, content) ==
    /\ GetStatementsOk
    /\ messages' = MessagesUpdated(id, content)
    /\ UNCHANGED <<schema, threads, now, nextId, nextThread, bookVars, apiKey, turns, client>>

\* ChatPage loadThreads: the page creates a thread when the list is empty.
EnsureThread ==
    /\ threads = <<>>
    /\ CreateThread(<<"New Chat">>)

-----------------------------------------------------------------------------
(* The page: src/components/chat/ChatPage.tsx with useChat.                *)
(* client.records is threadMessages, client.chat the useChat messages,     *)
(* client.edited the locals of handleSaveEdit between its awaits,          *)
(* client.titleGenerated the state of that name of the mounted ChatThread. *)

NoEdit == [id |-> 0, content |-> NoString, at |-> 0, horizon |-> 0]

\* No page is open.
NoClient ==
    [pc |-> "none", threadId |-> NoString, records |-> <<>>, chat |-> <<>>,
     edited |-> NoEdit, titleGenerated |-> FALSE]

AllIdle == \A t \in Turns : turns[t].pc = "idle"

\* The id useChat gives a message it creates: not an id of the store.
LocalId(chat) == 0 - (Len(chat) + 1)

ChatMessage(id, role, content, invocations) ==
    [id |-> id, role |-> role, content |-> content, invocations |-> invocations]

\* initialMessages: the loaded rows as useChat messages, under their store ids.
initialMessages(records) ==
    [i \in 1..Len(records) |->
        ChatMessage(records[i].id,
                    IF records[i].role = "tool" THEN "data" ELSE records[i].role,
                    records[i].content, <<>>)]

\* loadMessages: GET /api/threads/:id/messages for the active thread.
LoadMessages ==
    /\ client.pc = "none"
    /\ threads # <<>>
    /\ AllIdle
    /\ LET records == IF GetStatementsOk THEN getMessagesByThread(threads[1].id)
                      ELSE <<>>
       IN  client' = [NoClient EXCEPT !.pc = "ready", !.threadId = threads[1].id,
                                      !.records = records,
                                      !.chat = initialMessages(records)]
    /\ UNCHANGED <<storeVars, bookVars, apiKey, turns>>

\* handleSubmit / append: the message joins the local list and the list is
\* posted to the chat route.
Send(t, text) ==
    /\ client.pc = "ready"
    /\ AllIdle
    /\ client' = [client EXCEPT !.pc = "waiting",
                    !.chat = Append(@, ChatMessage(LocalId(@), "user", text, <<>>))]
    /\ POST(t, Body(client.threadId, [role |-> "user", content |-> text], FALSE), "send")

\* The response of a turn the page started reaches useChat: the reply joins the
\* local list with the tool invocations the page renders (ChatPage 463-497).
Deliver(t) ==
    /\ client.pc = "waiting"
    /\ turns[t].origin \in {"send", "reload", "confirm"}
    /\ turns[t].pc \in {"rejected", "failed", "done"}
    /\ client' = [client EXCEPT
            !.pc = "ready",
            !.edited = NoEdit,
            !.chat = IF turns[t].status = 200
                        /\ (turns[t].text # <<>> \/ turns[t].calls # <<>>)
                     THEN Append(@, ChatMessage(LocalId(@), "assistant",
                                                turns[t].text, turns[t].calls))
                     ELSE @]
    /\ turns' = [turns EXCEPT ![t] = IdleTurn]
    /\ UNCHANGED <<storeVars, bookVars, apiKey>>

\* const editedRecord = messageRecords.find(message => message.id === editedId)
RecordOf(records, id) ==
    LET Hit(r) == r.id = id IN SelectSeq(records, Hit)

\* handleSaveEdit up to the PATCH response: updateMessage by id.
EditPatch(id, content) ==
    /\ client.pc = "ready"
    /\ AllIdle
    /\ \E i \in 1..Len(client.chat) :
          client.chat[i].id = id /\ client.chat[i].role = "user"
    /\ IF GetStatementsOk
       THEN /\ messages' = MessagesUpdated(id, content)
            /\ client' = [client EXCEPT
                    !.pc = "edit_delete",
                    !.edited = [id |-> id, content |-> content,
                                at |-> IF RecordOf(client.records, id) = <<>> THEN 0
                                       ELSE RecordOf(client.records, id)[1].created_at,
                                horizon |-> nextId]]
       ELSE UNCHANGED <<messages, client>>
    /\ UNCHANGED <<schema, threads, now, nextId, nextThread, bookVars, apiKey, turns>>

\* DELETE /api/threads/:id/messages: a body without id is answered 400 before
\* any statement runs; id = 0 stands for an absent id.
DeleteRoute(body) ==
    IF body.id = 0 THEN messages ELSE MessagesWithout(body.id)

\* PATCH /api/threads/:threadId/messages with { id, content }: the handler
\* takes the request only, and the statement is keyed by the id of the body.
\* A body without id is answered 400 before any statement runs.
PatchMessagesRoute(threadId, body) ==
    IF body.id = 0 \/ body.content = NoString THEN messages
    ELSE MessagesUpdated(body.id, body.content)

\* DELETE /api/threads/:threadId/messages with { id }: the handler takes the
\* request only.
DeleteMessagesRoute(threadId, body) == DeleteRoute(body)

\* A PATCH request on the messages of a thread.
PatchMessage(threadId, id, content) ==
    /\ GetStatementsOk
    /\ messages' = PatchMessagesRoute(threadId, [id |-> id, content |-> content])
    /\ UNCHANGED <<schema, threads, now, nextId, nextThread, bookVars, apiKey, turns, client>>

\* A DELETE request on the messages of a thread.
DeleteMessage(threadId, id) ==
    /\ GetStatementsOk
    /\ messages' = DeleteMessagesRoute(threadId, [id |-> id, afterId |-> 0])
    /\ UNCHANGED <<schema, threads, now, nextId, nextThread, bookVars, apiKey, turns, client>>

\* The local lists after an edit: threadMessages keeps the rows not later than
\* the edited record, useChat keeps the messages up to the edited one.
RecordsAfterEdit(records, edited) ==
    LET Kept(r) == edited.at = 0 \/ r.created_at <= edited.at
        mapped == [i \in 1..Len(records) |->
                     IF records[i].id = edited.id
                     THEN [records[i] EXCEPT !.content = edited.content]
                     ELSE records[i]]
    IN  SelectSeq(mapped, Kept)

ChatAfterEdit(chat, edited) ==
    LET hits == {i \in 1..Len(chat) : chat[i].id = edited.id}
    IN  IF hits = {} THEN chat
        ELSE LET index == CHOOSE i \in hits : \A j \in hits : i <= j
             IN  [i \in 1..index |->
                    IF chat[i].id = edited.id
                    THEN [chat[i] EXCEPT !.content = edited.content]
                    ELSE chat[i]]

\* handleSaveEdit from the DELETE request, sent with { afterId } when the
\* edited record is known, to the update of the local lists.
EditDelete ==
    /\ client.pc = "edit_delete"
    /\ messages' = IF client.edited.at # 0
                   THEN DeleteRoute([id |-> 0, afterId |-> client.edited.id])
                   ELSE messages
    /\ client' = [client EXCEPT
            !.pc = "reload",
            !.records = RecordsAfterEdit(@, client.edited),
            !.chat = ChatAfterEdit(@, client.edited)]
    /\ UNCHANGED <<schema, threads, now, nextId, nextThread, bookVars, apiKey, turns>>

\* reload(): a trailing assistant message is dropped and the list is posted.
Reload(t) ==
    /\ client.pc = "reload"
    /\ client.chat # <<>>
    /\ LET chat == client.chat
           sent == IF chat[Len(chat)].role = "assistant"
                   THEN SubSeq(chat, 1, Len(chat) - 1) ELSE chat
           last == IF sent = <<>> THEN NoMessage
                   ELSE [role |-> sent[Len(sent)].role, content |-> sent[Len(sent)].content]
       IN  /\ client' = [client EXCEPT !.pc = "waiting", !.chat = sent]
           /\ POST(t, Body(client.threadId, last, FALSE), "reload")

\* title.replace(/\n/g, " "): a text is a sequence of characters here
ReplaceNewlines(s) == [i \in 1..Len(s) |-> IF s[i] = "\n" THEN " " ELSE s[i]]

IsTerminator(c) == c \in {".", "!", "?"}

\* The end of the match of /^[^.!?]*[.!?]/: the position of the first
\* terminator, 0 when there is no match.
FirstTerminator(s) ==
    IF \E i \in 1..Len(s) : IsTerminator(s[i])
    THEN CHOOSE i \in 1..Len(s) :
            IsTerminator(s[i]) /\ \A j \in 1..(i - 1) : ~IsTerminator(s[j])
    ELSE 0

\* title.lastIndexOf(" "), zero-based, -1 when there is no space
LastIndexOfSpace(s) ==
    IF \E i \in 1..Len(s) : s[i] = " "
    THEN (CHOOSE i \in 1..Len(s) :
             s[i] = " " /\ \A j \in (i + 1)..Len(s) : s[j] # " ") - 1
    ELSE 0 - 1

TitleLimit == 50

Placeholder == <<"C", "h", "a", "t">>

\* A title that is returned as it is when nothing is left of the text.
generateTitleNoPlaceholder(userMessage) ==
    LET flat     == Trim(ReplaceNewlines(userMessage))
        stop     == FirstTerminator(flat)
        sentence == IF stop > 0 THEN Trim(SubSeq(flat, 1, stop - 1)) ELSE flat
        cut      == Trim(SubSeq(sentence, 1, TitleLimit))
        last     == LastIndexOfSpace(cut)
    IN  IF Len(sentence) > TitleLimit
        THEN IF last > 0 THEN SubSeq(cut, 1, last) ELSE cut
        ELSE sentence

\* generateTitleFromMessage(userMessage)
generateTitleFromMessage(userMessage) ==
    LET flat     == Trim(ReplaceNewlines(userMessage))
        stop     == FirstTerminator(flat)
        sentence == IF stop > 0 THEN Trim(SubSeq(flat, 1, stop - 1)) ELSE flat
        cut      == Trim(SubSeq(sentence, 1, TitleLimit))
        last     == LastIndexOfSpace(cut)
        title    == IF Len(sentence) > TitleLimit
                    THEN IF last > 0 THEN SubSeq(cut, 1, last) ELSE cut
                    ELSE sentence
    IN  IF title = <<>> THEN Placeholder ELSE title

\* messages.find((msg) => msg.role === "user"): its text, NoString when there
\* is no user message.
FirstUserText(chat) ==
    LET hits == {i \in 1..Len(chat) : chat[i].role = "user"}
    IN  IF hits = {} THEN NoString
        ELSE chat[CHOOSE i \in hits : \A j \in hits : i <= j].content

\* PATCH /api/threads/:id: a falsy title is answered 400, a failing
\* getStatements 500; UPDATE threads SET title = ? WHERE id = ?
PatchThread(threadId, title) ==
    IF Falsy(title) \/ ~GetStatementsOk THEN threads
    ELSE [i \in 1..Len(threads) |->
            IF threads[i].id = threadId THEN [threads[i] EXCEPT !.title = title]
            ELSE threads[i]]

\* The title effect of a mounted ChatThread (ChatPage 165-200).
TitleEffect ==
    /\ client.pc # "none"
    /\ ~client.titleGenerated
    /\ client.threadId # NoString
    /\ FirstUserText(client.chat) # NoString
    /\ Trim(FirstUserText(client.chat)) # <<>>
    /\ client' = [client EXCEPT !.titleGenerated = TRUE]
    /\ threads' = PatchThread(client.threadId,
                              generateTitleFromMessage(FirstUserText(client.chat)))
    /\ UNCHANGED <<schema, messages, now, nextId, nextThread, bookVars, apiKey, turns>>

\* The mounted ChatThread goes away, and its state with it: the page is left
\* or reloaded, or another thread is selected (key={activeThreadId}).
ClosePage ==
    /\ client.pc = "ready"
    /\ AllIdle
    /\ client' = NoClient
    /\ UNCHANGED <<storeVars, bookVars, apiKey, turns>>

\* PATCH /api/threads/:id { title } sent by a caller other than the effect.
Rename(threadId, title) ==
    /\ threadId \in ThreadIdsOf(threads)
    /\ threads' = PatchThread(threadId, title)
    /\ UNCHANGED <<schema, messages, now, nextId, nextThread, bookVars, apiKey, turns,
                   client>>

\* `Confirmed action${actionId ? ` (${actionId})` : ""}. Proceed.`
ConfirmText(actionId) ==
    <<"Confirmed", " ", "action">>
        \o (IF actionId = "" THEN <<>> ELSE <<" ", "(", actionId, ")">>)
        \o <<".", " ", "Proceed.">>

\* handleConfirmAction(toolCallId, actionId) on the k-th invocation of the
\* i-th message: addToolResult({confirmed: true}) and append of a user message.
HandleConfirmAction(t, i, k) ==
    /\ client.pc = "ready"
    /\ AllIdle
    /\ i \in 1..Len(client.chat)
    /\ k \in 1..Len(client.chat[i].invocations)
    /\ client.chat[i].invocations[k].name = "confirmAction"
    /\ client.chat[i].invocations[k].resolved = "no"
    /\ LET text == ConfirmText(client.chat[i].invocations[k].actionId)
           answered == [client.chat EXCEPT ![i].invocations[k].resolved = "confirmed"]
       IN  /\ client' = [client EXCEPT !.pc = "waiting",
                           !.chat = Append(answered,
                                       ChatMessage(LocalId(answered), "user", text, <<>>))]
           /\ POST(t, Body(client.threadId, [role |-> "user", content |-> text], FALSE),
                   "confirm")

\* `Cancelled action${actionId ? ` (${actionId})` : ""}.`
CancelText(actionId) ==
    <<"Cancelled", " ", "action">>
        \o (IF actionId = "" THEN <<>> ELSE <<" ", "(", actionId, ")">>)
        \o <<".">>

\* handleCancelAction(toolCallId, actionId) on the k-th invocation of the
\* i-th message: addToolResult({confirmed: false, cancelled: true}) and append
\* of a user message.
HandleCancelAction(t, i, k) ==
    /\ client.pc = "ready"
    /\ AllIdle
    /\ i \in 1..Len(client.chat)
    /\ k \in 1..Len(client.chat[i].invocations)
    /\ client.chat[i].invocations[k].name = "confirmAction"
    /\ client.chat[i].invocations[k].resolved = "no"
    /\ LET text == CancelText(client.chat[i].invocations[k].actionId)
           answered == [client.chat EXCEPT ![i].invocations[k].resolved = "cancelled"]
       IN  /\ client' = [client EXCEPT !.pc = "waiting",
                           !.chat = Append(answered,
                                       ChatMessage(LocalId(answered), "user", text, <<>>))]
           /\ POST(t, Body(client.threadId, [role |-> "user", content |-> text], FALSE),
                   "confirm")

\* toolInvocation.state: "result" once the invocation carries a result, that
\* of the tool's execute or that of addToolResult.
InvocationState(inv) == IF inv.status = "raised" THEN "call" ELSE "result"

\* result?.confirmed: the result of execute is { status, ...args } and has no
\* field of that name; addToolResult writes confirmed: true or false.
ResultConfirmed(inv) == inv.resolved = "confirmed"

\* The status the page hands to ConfirmActionCard.
CardStatus(inv) ==
    IF InvocationState(inv) = "result"
    THEN IF ResultConfirmed(inv) THEN "confirmed" ELSE "cancelled"
    ELSE "pending"

-----------------------------------------------------------------------------
(* Spec: the chat route under arbitrary requests, one request at a time.   *)

Fragments == {"ok", " "}

\* The replies the model streams: word and whitespace fragments in alternation.
NextFragments(text) ==
    IF text = <<>> THEN Fragments ELSE Fragments \ {text[Len(text)]}

PlainTexts == {<<"hi">>}
UserTexts == {<<"hi">>, <<"see", "@", "A1">>}

ThreadIdInputs == {NoString, <<" ">>, <<"t1">>, <<" ", "t1", " ">>, <<"t2">>}

LastMessages ==
    {NoMessage}
        \cup {[role |-> r, content |-> c] :
                 r \in {"user", "assistant"}, c \in PlainTexts \cup {NoString}}

Bodies ==
    {InvalidJson}
        \cup {Body(tid, last, f) : tid \in ThreadIdInputs, last \in LastMessages,
                                   f \in BOOLEAN}

OthersIdle(t) == \A u \in Turns \ {t} : turns[u].pc = "idle"

\* The store has taken fewer than limit rows.
RoomFor(limit) == nextId <= limit

InitStore ==
    /\ schema \in {SchemaTables, SchemaTables \cup {"uploads"}}
    /\ threads = <<>>
    /\ messages = <<>>
    /\ now = 1
    /\ nextId = 1
    /\ nextThread = 1

Init ==
    /\ InitStore
    /\ fileExists = TRUE
    /\ writers = IdleWriters
    /\ workbook = SeedWorkbook
    /\ apiKey \in BOOLEAN
    /\ turns = [t \in Turns |-> IdleTurn]
    /\ client = NoClient

Next ==
    \/ EnsureThread
    \/ \E t \in Turns, body \in Bodies :
          OthersIdle(t) /\ RoomFor(MaxIds) /\ ChatPost(t, body, "api")
    \/ \E t \in Turns : \E frag \in NextFragments(turns[t].text) : GenText(t, frag)
    \/ \E t \in Turns : GenError(t)
    \/ \E t \in Turns : RoomFor(MaxIds) /\ GenFinish(t)
    \/ \E t \in Turns : Release(t)

Spec == Init /\ [][Next]_vars

-----------------------------------------------------------------------------
(* SpecTools: turns that call tools on the workbook.                       *)

E2 == <<"E", "2">>
A1 == <<"A", "1">>

ToolCalls ==
    {ToolCall("confirmAction", "", <<>>, JsNull, "undefined", "a1"),
     ToolCall("getRange", "", <<"A", "1", ":", "B", "2">>, JsNull, "undefined", ""),
     ToolCall("getRange", "", <<"?">>, JsNull, "undefined", ""),
     ToolCall("getRange", "Nope", A1, JsNull, "undefined", ""),
     ToolCall("explainFormula", "", A1, JsNull, "undefined", ""),
     ToolCall("explainFormula", "Nope", A1, JsNull, "undefined", ""),
     ToolCall("openTable", "", <<>>, JsNull, "undefined", ""),
     ToolCall("highlightCells", "", <<>>, JsNull, "undefined", "")}
        \cup {ToolCall("updateCell", "", E2, JsString("Updated Note"), c, "") :
                 c \in {"undefined", "false", "true"}}
        \cup {ToolCall("updateCell", "", A1, JsNull, c, "") : c \in {"false", "true"}}
        \cup {ToolCall("updateCell", "Nope", E2, JsNumber("7"), "true", ""),
              ToolCall("updateCell", "", <<"?">>, JsNumber("7"), "true", "")}

ToolBodies ==
    {Body(<<"t1">>, [role |-> r, content |-> c], FALSE) :
        r \in {"user", "assistant"}, c \in UserTexts \cup {NoString}}

InitTools ==
    /\ InitStore
    /\ fileExists \in BOOLEAN
    /\ writers = IdleWriters
    /\ workbook = SeedWorkbook
    /\ apiKey = TRUE
    /\ turns = [t \in Turns |-> IdleTurn]
    /\ client = NoClient

NextTools ==
    \/ EnsureThread
    \/ \E t \in Turns, body \in ToolBodies :
          OthersIdle(t) /\ RoomFor(MaxIds) /\ ChatPost(t, body, "api")
    \/ \E t \in Turns, call \in ToolCalls : GenToolCall(t, call)
    \/ \E t \in Turns : GenError(t)
    \/ \E t \in Turns : RoomFor(MaxIds) /\ GenFinish(t)
    \/ \E t \in Turns : Release(t)

SpecTools == InitTools /\ [][NextTools]_vars

-----------------------------------------------------------------------------
(* SpecClient: one page on one thread: history, edit and regenerate,       *)
(* confirmation of a pending action.                                       *)

MaxRows == 4

HistoryBody == Body(<<"t1">>, [role |-> "user", content |-> <<"hi">>], FALSE)
MentionText == <<"see", "@", "A1">>
EditedText == <<"hi", " ", "again">>
ConfirmCall == ToolCall("confirmAction", "", <<>>, JsNull, "undefined", "a1")

InitClient ==
    /\ InitStore
    /\ fileExists = TRUE
    /\ writers = IdleWriters
    /\ workbook = SeedWorkbook
    /\ apiKey = TRUE
    /\ turns = [t \in Turns |-> IdleTurn]
    /\ client = NoClient

\* Time passes while a reply is generated.
Generating == \E t \in Turns : turns[t].pc = "generating"

NextClient ==
    \/ EnsureThread
    \/ Generating /\ Tick
    \/ \E t \in Turns :
          client.pc = "none" /\ RoomFor(MaxRows) /\ ChatPost(t, HistoryBody, "api")
    \/ \E t \in Turns : turns[t].text = <<>> /\ GenText(t, "ok")
    \/ \E t \in Turns : GenToolCall(t, ConfirmCall)
    \/ \E t \in Turns : RoomFor(MaxRows) /\ GenFinish(t)
    \/ \E t \in Turns : Release(t)
    \/ LoadMessages
    \/ \E t \in Turns : RoomFor(MaxRows) /\ Send(t, MentionText)
    \/ \E id \in {c.id : c \in Rows(client.chat)} : EditPatch(id, EditedText)
    \/ EditDelete
    \/ \E t \in Turns : RoomFor(MaxRows) /\ Reload(t)
    \/ \E t \in Turns : Deliver(t)
    \/ \E t \in Turns, i \in 1..MaxRows, k \in 1..MaxCalls :
          RoomFor(MaxRows) /\ HandleConfirmAction(t, i, k)

SpecClient == InitClient /\ [][NextClient]_vars

-----------------------------------------------------------------------------
(* SpecStore: the store under direct calls of its operations.              *)

Title == <<"New Chat">>
StoreRoles == {"user", "assistant"}
StoreText == <<"hi">>

\* createdAt as a caller passes it: 0 (absent) or a time of the clock.
CreatedAts == 0..MaxClock

\* Thread ids a caller may name: those created so far, deleted ones included.
KnownThreads == {ThreadId(n) : n \in 1..(nextThread - 1)}

InitStoreSpec ==
    /\ InitStore
    /\ fileExists = TRUE
    /\ writers = IdleWriters
    /\ workbook = SeedWorkbook
    /\ apiKey = TRUE
    /\ turns = [t \in Turns |-> IdleTurn]
    /\ client = NoClient

NextStore ==
    \/ Tick
    \/ CreateThread(Title)
    \/ \E T \in KnownThreads, r \in StoreRoles, c \in CreatedAts :
          RoomFor(MaxIds) /\ SaveMessage(T, r, StoreText, c)
    \/ \E T \in KnownThreads : DeleteThread(T)

SpecStore == InitStoreSpec /\ [][NextStore]_vars

-----------------------------------------------------------------------------
(* SpecMessages: saves and bulk deletes on the messages of the threads.    *)

NextMessages ==
    \/ Tick
    \/ CreateThread(Title)
    \/ \E T \in KnownThreads, r \in StoreRoles, c \in CreatedAts :
          RoomFor(MaxIds) /\ SaveMessage(T, r, StoreText, c)
    \/ \E T \in KnownThreads, ts \in CreatedAts : DeleteMessagesAfter(T, ts)

SpecMessages == InitStoreSpec /\ [][NextMessages]_vars

-----------------------------------------------------------------------------
(* SpecBook: the dataset engine under direct calls, on the sample workbook, *)
(* on a workbook with a date cell and a formula cell, and on a workbook    *)
(* whose sheet has no cell and no used range.                              *)

F1 == <<"F", "1">>
F2 == <<"F", "2">>
F7 == <<"F", "7">>
AbsoluteE2 == <<"$", "E", "$", "2">>

DateCell == [t |-> "d", v |-> "2024-01-02", f |-> ""]
FormulaCell == [t |-> "n", v |-> "57.5", f |-> "B2+D2"]

RichWorkbook ==
    [SheetNames |-> <<"Sheet1">>,
     Sheets |-> [n \in {"Sheet1"} |->
        [cells |-> [k \in AllCellStrings |->
                      IF k = F1 THEN DateCell
                      ELSE IF k = F2 THEN FormulaCell
                      ELSE SeedSheet.cells[k]],
         ref   |-> <<"A", "1", ":", "F", "6">>]]]

BlankWorkbook ==
    [SheetNames |-> <<"Sheet1">>,
     Sheets |-> [n \in {"Sheet1"} |->
        [cells |-> [k \in AllCellStrings |-> NoCell], ref |-> NoString]]]

BookCells == {E2, F2, F7, AbsoluteE2, <<"?">>}
BookValues == {JsString("Updated Note"), JsNumber("7"), JsBoolean("true"), JsNull}
BookSheets == {"", "Sheet1"}

\* updateCell(cell, value, sheetName) called on the engine; a call that throws
\* leaves the file as it was.
UpdateCell(cell, value, sheetName) ==
    /\ updateCell(cell, value, sheetName).ok
    /\ workbook' = updateCell(cell, value, sheetName).workbook
    /\ UNCHANGED <<storeVars, fileExists, writers, apiKey, turns, client>>

InitBook ==
    /\ InitStore
    /\ fileExists = TRUE
    /\ writers = IdleWriters
    /\ workbook \in {SeedWorkbook, RichWorkbook, BlankWorkbook}
    /\ apiKey = TRUE
    /\ turns = [t \in Turns |-> IdleTurn]
    /\ client = NoClient

NextBook ==
    \E cell \in BookCells, value \in BookValues, sheetName \in BookSheets :
        UpdateCell(cell, value, sheetName)

SpecBook == InitBook /\ [][NextBook]_vars

-----------------------------------------------------------------------------
(* SpecWriters: two processes update cells of the sample workbook, their   *)
(* loads and writes in any order.                                          *)

WriterCells == {E2, F2, <<"?">>}
WriterValues == {JsString("Updated Note"), JsNumber("7")}

InitWriters ==
    /\ InitStore
    /\ fileExists = TRUE
    /\ writers = IdleWriters
    /\ workbook = SeedWorkbook
    /\ apiKey = TRUE
    /\ turns = [t \in Turns |-> IdleTurn]
    /\ client = NoClient

NextWriters ==
    \/ \E w \in Writers, cell \in WriterCells, value \in WriterValues :
          WriterLoad(w, cell, value, "")
    \/ \E w \in Writers : WriterWrite(w)

SpecWriters == InitWriters /\ [][NextWriters]_vars

-----------------------------------------------------------------------------
(* SpecFailures: calls of updateCell with the file present or missing and  *)
(* with sheet names the workbook has or lacks.                             *)

FailureCells == {E2, <<"?">>}
FailureValues == {JsNumber("7"), JsNull}
FailureSheets == {"", "Nope"}

InitFailures ==
    /\ InitStore
    /\ fileExists \in BOOLEAN
    /\ writers = IdleWriters
    /\ workbook = SeedWorkbook
    /\ apiKey = TRUE
    /\ turns = [t \in Turns |-> IdleTurn]
    /\ client = NoClient

NextFailures ==
    \/ \E w \in Writers, cell \in FailureCells, value \in FailureValues,
          sheetName \in FailureSheets :
          CallUpdateCell(w, cell, value, sheetName)
    \/ RestoreFile

SpecFailures == InitFailures /\ [][NextFailures]_vars

-----------------------------------------------------------------------------
(* SpecTitle: the title effect on a thread whose first user message is any *)
(* text built from a few pieces, or one of two sample sentences.           *)

MaxPieces == 3

LongWord == [i \in 1..30 |-> "a"]

TitlePieces == {LongWord, <<"H", "i">>, <<" ">>, <<"\n">>, <<".">>, <<"?">>}

RECURSIVE PiecesUpTo(_)
PiecesUpTo(n) ==
    IF n = 0 THEN {<<>>}
    ELSE PiecesUpTo(n - 1)
            \cup {s \o p : s \in PiecesUpTo(n - 1), p \in TitlePieces}

\* "Hello, how are you today? I have a question."
TwoSentences ==
    <<"H", "e", "l", "l", "o", ",", " ", "h", "o", "w", " ", "a", "r", "e",
      " ", "y", "o", "u", " ", "t", "o", "d", "a", "y", "?", " ", "I", " ",
      "h", "a", "v", "e", " ", "a", " ", "q", "u", "e", "s", "t", "i", "o",
      "n", ".">>

\* Forty times "word ": 200 characters, no terminator.
LongSentence == [i \in 1..200 |-> <<"w", "o", "r", "d", " ">>[((i - 1) % 5) + 1]]

TitleInputs ==
    (PiecesUpTo(MaxPieces) \ {<<>>})
        \cup {TwoSentences, LongSentence, LongSentence \o <<"?">>}

\* A thread as createThread of the page made it, with one user message.
InitTitle ==
    /\ schema = SchemaTables \cup {"uploads"}
    /\ threads = <<[id |-> ThreadId(1), title |-> <<"New Chat">>, created_at |-> 1]>>
    /\ \E text \in TitleInputs :
          messages = <<[id |-> 1, thread_id |-> ThreadId(1), role |-> "user",
                        content |-> text, created_at |-> 1]>>
    /\ now = 1
    /\ nextId = 2
    /\ nextThread = 2
    /\ fileExists = TRUE
    /\ writers = IdleWriters
    /\ workbook = SeedWorkbook
    /\ apiKey = TRUE
    /\ turns = [t \in Turns |-> IdleTurn]
    /\ client = NoClient

NextTitle ==
    \/ LoadMessages
    \/ TitleEffect

SpecTitle == InitTitle /\ [][NextTitle]_vars

-----------------------------------------------------------------------------
(* SpecSummary: one thread over its life on the page: opened, written to,  *)
(* edited, closed and opened again, and renamed once it has a derived      *)
(* title.                                                                  *)

FirstText == <<"H", "i">>
SecondText == <<"H", "i", " ", "a", "l", "l">>
Renamed == <<"R", "e", "n", "a", "m", "e", "d">>

\* The threads whose title is not the one createThread gave them.
Titled == {threads[i].id : i \in {j \in 1..Len(threads) : threads[j].title # <<"New Chat">>}}

NextSummary ==
    \/ EnsureThread
    \/ LoadMessages
    \/ \E t \in Turns : RoomFor(MaxRows) /\ Send(t, FirstText)
    \/ \E t \in Turns : turns[t].text = <<>> /\ GenText(t, "ok")
    \/ \E t \in Turns : RoomFor(MaxRows) /\ GenFinish(t)
    \/ \E t \in Turns : Deliver(t)
    \/ \E id \in {c.id : c \in Rows(client.chat)} : EditPatch(id, SecondText)
    \/ EditDelete
    \/ \E t \in Turns : RoomFor(MaxRows) /\ Reload(t)
    \/ TitleEffect
    \/ \E threadId \in Titled : Rename(threadId, Renamed)
    \/ ClosePage

SpecSummary == InitClient /\ [][NextSummary]_vars

-----------------------------------------------------------------------------
(* SpecRegen: a thread with a stored exchange is opened, its user message  *)
(* is edited, and the regeneration that follows may fail.                  *)

NextRegen ==
    \/ EnsureThread
    \/ Generating /\ Tick
    \/ \E t \in Turns :
          client.pc = "none" /\ RoomFor(MaxRows) /\ ChatPost(t, HistoryBody, "api")
    \/ \E t \in Turns : turns[t].text = <<>> /\ GenText(t, "ok")
    \/ \E t \in Turns : GenError(t)
    \/ \E t \in Turns : RoomFor(MaxRows) /\ GenFinish(t)
    \/ \E t \in Turns : Release(t)
    \/ LoadMessages
    \/ \E id \in {c.id : c \in Rows(client.chat)} : EditPatch(id, EditedText)
    \/ EditDelete
    \/ \E t \in Turns : RoomFor(MaxRows) /\ Reload(t)
    \/ \E t \in Turns : Deliver(t)

SpecRegen == InitClient /\ [][NextRegen]_vars

-----------------------------------------------------------------------------
(* SpecConfirm: a page on one thread; the model asks for confirmation and  *)
(* the user confirms or cancels.                                           *)

NextConfirm ==
    \/ EnsureThread
    \/ Generating /\ Tick
    \/ LoadMessages
    \/ \E t \in Turns : RoomFor(MaxRows) /\ Send(t, MentionText)
    \/ \E t \in Turns : turns[t].text = <<>> /\ GenText(t, "ok")
    \/ \E t \in Turns : GenToolCall(t, ConfirmCall)
    \/ \E t \in Turns : RoomFor(MaxRows) /\ GenFinish(t)
    \/ \E t \in Turns : Deliver(t)
    \/ \E t \in Turns, i \in 1..MaxRows, k \in 1..MaxCalls :
          RoomFor(MaxRows) /\ HandleConfirmAction(t, i, k)
    \/ \E t \in Turns, i \in 1..MaxRows, k \in 1..MaxCalls :
          RoomFor(MaxRows) /\ HandleCancelAction(t, i, k)

SpecConfirm == InitClient /\ [][NextConfirm]_vars

-----------------------------------------------------------------------------
(* SpecEdit: saved messages are edited by id.                              *)

NewContent == <<"hi", " ", "again">>

\* Ids a caller may name: those of the stored rows and one that is not stored.
KnownIds == MessageIdsOf(messages) \cup {nextId}

NextEdit ==
    \/ Tick
    \/ CreateThread(Title)
    \/ \E T \in KnownThreads, r \in StoreRoles :
          RoomFor(MaxIds) /\ SaveMessage(T, r, StoreText, 0)
    \/ \E id \in KnownIds : UpdateMessage(id, NewContent)

SpecEdit == InitStoreSpec /\ [][NextEdit]_vars

-----------------------------------------------------------------------------
(* SpecRoutes: edit and delete requests on the messages of any thread,     *)
(* with the id of any stored message.                                      *)

NextRoutes ==
    \/ Tick
    \/ CreateThread(Title)
    \/ \E T \in KnownThreads, r \in StoreRoles :
          RoomFor(MaxIds) /\ SaveMessage(T, r, StoreText, 0)
    \/ \E T \in KnownThreads, id \in KnownIds : PatchMessage(T, id, NewContent)
    \/ \E T \in KnownThreads, id \in KnownIds : DeleteMessage(T, id)

SpecRoutes == InitStoreSpec /\ [][NextRoutes]_vars

-----------------------------------------------------------------------------
(* SpecConcurrent: chat requests on one thread with nothing between them:  *)
(* a request may enter the route while others are generating.              *)

ConcurrentTurns == 1..(MaxTurns + 1)

\* What the t-th request asks and what the model answers to it.
Question == <<"q1", "q2", "q3">>
Answer == <<"a1", "a2", "a3">>
ConcurrentBody(t) == Body(<<"t1">>, [role |-> "user", content |-> <<Question[t]>>], FALSE)

InitConcurrent ==
    /\ InitStore
    /\ fileExists = TRUE
    /\ writers = IdleWriters
    /\ workbook = SeedWorkbook
    /\ apiKey = TRUE
    /\ turns = [t \in ConcurrentTurns |-> IdleTurn]
    /\ client = NoClient

NextConcurrent ==
    \/ EnsureThread
    \/ Tick
    \/ \E t \in ConcurrentTurns :
          RoomFor(MaxRows) /\ ChatPost(t, ConcurrentBody(t), "api")
    \/ \E t \in ConcurrentTurns : turns[t].text = <<>> /\ GenText(t, Answer[t])
    \/ \E t \in ConcurrentTurns : RoomFor(MaxRows) /\ GenFinish(t)
    \/ \E t \in ConcurrentTurns : Release(t)

SpecConcurrent == InitConcurrent /\ [][NextConcurrent]_vars

-----------------------------------------------------------------------------
(* SpecRace: threads are deleted while turns on them are in progress.      *)

RaceBodies ==
    {Body(tid, [role |-> "user", content |-> <<"hi">>], FALSE) :
        tid \in {<<"t1">>, <<"t2">>}}

NextRace ==
    \/ EnsureThread
    \/ \E t \in Turns, body \in RaceBodies :
          OthersIdle(t) /\ RoomFor(MaxIds) /\ ChatPost(t, body, "api")
    \/ \E t \in Turns : \E frag \in NextFragments(turns[t].text) : GenText(t, frag)
    \/ \E t \in Turns : RoomFor(MaxIds) /\ GenFinish(t)
    \/ \E t \in Turns : Release(t)
    \/ \E T \in KnownThreads : DeleteThread(T)

SpecRace == InitTools /\ [][NextRace]_vars

-----------------------------------------------------------------------------
(* Claims.                                                                 *)

Tokens(str) == {str[i] : i \in 1..Len(str)}
LastCall(turn) == turn.calls[Len(turn.calls)]

\* What a getRange over the whole grid of the first sheet observes.
ReadAll == getRange(<<"A", "1", ":", "F", "7">>, "")

\* C1: an updateCell tool call whose confirmed argument is not true returns
\* needs_confirmation and leaves the workbook as it was (a read of every cell
\* gives the same values), and the workbook file changes only in an updateCell
\* call with confirmed = true.
C1_ConfirmationGate ==
    [][/\ \A t \in Turns :
            (/\ Len(turns'[t].calls) = Len(turns[t].calls) + 1
             /\ LastCall(turns'[t]).name = "updateCell"
             /\ LastCall(turns'[t]).confirmed # "true")
                => /\ LastCall(turns'[t]).status = "needs_confirmation"
                   /\ ReadAll' = ReadAll
                   /\ workbook' = workbook
                   /\ fileExists' = fileExists
       /\ (workbook' # workbook \/ fileExists' # fileExists)
            => \E t \in Turns :
                  /\ Len(turns'[t].calls) = Len(turns[t].calls) + 1
                  /\ LastCall(turns'[t]).name = "updateCell"
                  /\ LastCall(turns'[t]).confirmed = "true"
                  /\ LastCall(turns'[t]).status = "updated"]_vars

\* C1 witness: an unconfirmed updateCell call has been answered and, in the
\* same workbook, the cell it named still reads as in the sample.
C1_Witness ==
    /\ \E t \in Turns : \E i \in 1..Len(turns[t].calls) :
          /\ turns[t].calls[i].name = "updateCell"
          /\ turns[t].calls[i].confirmed = "undefined"
          /\ turns[t].calls[i].status = "needs_confirmation"
    /\ fileExists
    /\ getRange(E2, "").values = <<<<JsString("In Stock")>>>>

\* C2 (as claimed): whenever a request on an existing thread whose last message
\* is user-authored has got past the user-message step (it is generating, has completed, or has
\* failed later than that step), the thread holds the user message it saved.
C2_UserMessageDurable ==
    \A t \in Turns :
        (/\ turns[t].last.role = "user"
         /\ turns[t].threadId \in ThreadIdsOf(threads)
         /\ turns[t].pc \in {"generating", "done", "failed"}
         /\ turns[t].error # "Failed to persist user message")
            => \E m \in Rows(getMessagesByThread(turns[t].threadId)) :
                  /\ m.role = "user"
                  /\ m.id = turns[t].userMsg

\* C3: a step adds an assistant row only when it is the finish step of a
\* generating turn; the row then holds that turn's whole accumulated text,
\* which is not empty, in that turn's thread; and no step changes a row that
\* is already stored.
C3_AssistantPersistence ==
    [][/\ \A m \in Rows(messages') \ Rows(messages) :
            m.role = "assistant"
                => \E t \in Turns :
                      /\ turns[t].pc = "generating"
                      /\ turns'[t].pc = "done"
                      /\ m.content = turns[t].text
                      /\ Len(m.content) > 0
                      /\ m.thread_id = turns[t].threadId
                      /\ m.id = turns'[t].asstMsg
       /\ \A i \in 1..Len(messages) :
            i <= Len(messages') /\ messages'[i] = messages[i]]_vars

\* C3 witness: a turn that streamed two fragments has completed and the store
\* holds its whole text as an assistant row.
C3_Witness ==
    \E t \in Turns :
        /\ turns[t].pc = "done"
        /\ Len(turns[t].text) >= 2
        /\ \E m \in Rows(getMessagesByThread(turns[t].threadId)) :
              /\ m.id = turns[t].asstMsg
              /\ m.role = "assistant"
              /\ m.content = turns[t].text

\* C4 (as claimed): when the regeneration that follows the edit of a stored
\* user message M1 has completed and saved its reply, no row that was in the
\* thread at edit time with created_at later than M1's is left (M2 is gone),
\* M1 holds the new content, and the new assistant row is the last of the
\* thread.
C4_EditTruncates ==
    \A t \in Turns :
        (/\ turns[t].origin = "reload"
         /\ turns[t].pc = "done"
         /\ turns[t].asstMsg # 0
         /\ client.edited.at # 0)
            => LET rows == getMessagesByThread(turns[t].threadId)
               IN  /\ \A m \in Rows(rows) :
                         m.id < client.edited.horizon
                             => m.created_at <= client.edited.at
                   /\ \E m \in Rows(rows) :
                         m.id = client.edited.id /\ m.content = client.edited.content
                   /\ rows[Len(rows)].id = turns[t].asstMsg
                   /\ rows[Len(rows)].role = "assistant"

HasMarker(last) ==
    /\ last.role = "user"
    /\ last.content # NoString
    /\ "@" \in Tokens(last.content)

\* C6: a turn that reached generation has the tools attached exactly when its
\* last message is user-authored text containing "@"; a turn without the
\* marker runs no tool, and no step of such a turn changes the workbook.
C6_ToolEligibility ==
    /\ [](\A t \in Turns :
            /\ turns[t].status = 200 => (turns[t].tools <=> HasMarker(turns[t].last))
            /\ ~HasMarker(turns[t].last) => turns[t].calls = <<>>)
    /\ [][\A t \in Turns :
            (turns'[t] # turns[t] /\ ~HasMarker(turns[t].last) /\ ~HasMarker(turns'[t].last))
                => UNCHANGED bookVars]_vars

\* C6 witness: a turn whose last message carries the marker has run a tool.
C6_Witness ==
    \E t \in Turns :
        /\ HasMarker(turns[t].last)
        /\ turns[t].tools
        /\ turns[t].calls # <<>>

\* The dataset engine fails on a call: the file is missing, the sheet is
\* unknown, or the range or cell is malformed.
EngineBacked(call) ==
    \/ call.name \in {"getRange", "explainFormula"}
    \/ call.name = "updateCell" /\ call.confirmed = "true"

\* A1 or A1:B2 with cells of the grid.
WellFormedRange(s) ==
    \/ s \in AllCellStrings
    \/ /\ Len(s) = 5
       /\ s[3] = ":"
       /\ SubSeq(s, 1, 2) \in AllCellStrings
       /\ SubSeq(s, 4, 5) \in AllCellStrings

EngineFails(call) ==
    /\ EngineBacked(call)
    /\ \/ ~fileExists
       \/ call.sheet \notin {""} \cup DOMAIN workbook.Sheets
       \/ call.name = "getRange" /\ ~WellFormedRange(call.target)
       \/ call.name = "updateCell" /\ call.value # JsNull /\ call.target \notin AllCellStrings

\* C7: every tool execution returns a value: the turn records a status, never
\* a raised exception, and goes on generating; when the dataset engine fails
\* the status is "error".
C7_ToolContainment ==
    [][\A t \in Turns, call \in ToolCalls :
          GenToolCall(t, call)
              => /\ LastCall(turns'[t]).status
                        \in {"ok", "updated", "needs_confirmation", "error"}
                 /\ turns'[t].pc = "generating"
                 /\ EngineFails(call) <=> LastCall(turns'[t]).status = "error"]_vars

\* C7 witness: a turn in which a tool returned an error has completed.
C7_Witness ==
    \E t \in Turns :
        /\ turns[t].pc = "done"
        /\ \E i \in 1..Len(turns[t].calls) : turns[t].calls[i].status = "error"

\* The request fails validation: the body is not JSON, or threadId is
\* missing or blank.
FailsValidation(body) ==
    \/ ~body.json
    \/ body.threadId = NoString
    \/ \A i \in 1..Len(body.threadId) : body.threadId[i] = " "

\* C8: a request that fails validation is answered 400 and changes nothing:
\* no row is saved, no generation starts, store and workbook stay as they were.
C8_ValidationFirst ==
    [][\A t \in Turns, body \in Bodies :
          (ChatPost(t, body, "api") /\ FailsValidation(body))
              => /\ turns'[t].pc = "rejected"
                 /\ turns'[t].status = 400
                 /\ turns'[t].text = <<>>
                 /\ UNCHANGED <<storeVars, bookVars>>]_vars

\* C8 witness: a request without a usable threadId has been rejected while
\* the thread exists and holds nothing.
C8_Witness ==
    \E t \in Turns :
        /\ turns[t].pc = "rejected"
        /\ turns[t].error = "threadId is required"
        /\ threads # <<>>
        /\ messages = <<>>

\* C9 (as claimed): for every thread, getMessagesByThread returns the rows in
\* non-decreasing created_at order, and that order is the order in which the
\* rows were saved (row ids are handed out in the order of the saves).
C9_OrderedAsSaved ==
    \A T \in KnownThreads :
        LET rows == getMessagesByThread(T)
        IN  \A i, j \in 1..Len(rows) :
                i < j => /\ rows[i].created_at <= rows[j].created_at
                         /\ rows[i].id < rows[j].id

\* The rows of thread T, in the order the store holds them.
RowsOf(msgs, T) ==
    LET OfThread(m) == m.thread_id = T IN SelectSeq(msgs, OfThread)

\* C10: a step that removes thread T removes every message of T with it and
\* changes no other thread and no message of another thread; a thread that
\* stays keeps its messages; and in every state each message belongs to a
\* listed thread.
C10_DeleteThreadAtomic ==
    /\ [](\A m \in Rows(messages) : m.thread_id \in ThreadIdsOf(threads))
    /\ [][\A T \in ThreadIdsOf(threads) :
            IF T \notin ThreadIdsOf(threads')
            THEN /\ getMessagesByThread(T)' = <<>>
                 /\ RowsOf(messages', T) = <<>>
                 /\ \A U \in ThreadIdsOf(threads) \ {T} :
                       /\ \E th \in Rows(threads) : th.id = U /\ th \in Rows(threads')
                       /\ RowsOf(messages', U) = RowsOf(messages, U)
            ELSE \A i \in 1..Len(RowsOf(messages, T)) :
                    /\ i <= Len(RowsOf(messages', T))
                    /\ RowsOf(messages', T)[i] = RowsOf(messages, T)[i]]_vars

\* C10 witness: a thread that held a message has been deleted while another
\* thread still lists its own message.
C10_Witness ==
    /\ nextId > 2
    /\ Len(threads) = 1
    /\ nextThread = 3
    /\ Len(messages) = 1
    /\ getMessagesByThread(threads[1].id) = messages

\* What deleteMessagesAfter(T, ts) is to leave of the rows: the rows of T later
\* than ts are gone, every other row is as it was and where it was.
TrimsExactly(after, T, ts) ==
    /\ \A m \in Rows(messages) :
          m \in Rows(after) <=> ~(m.thread_id = T /\ m.created_at > ts)
    /\ Rows(after) \subseteq Rows(messages)
    /\ \A U \in KnownThreads :
          \A i, j \in 1..Len(RowsOf(after, U)) :
              i < j => RowsOf(after, U)[i].id < RowsOf(after, U)[j].id
    /\ (\A m \in Rows(messages) : ~(m.thread_id = T /\ m.created_at > ts))
          => after = messages

\* The first and the second row of T in the order of the saves.
FirstOf(T) == RowsOf(messages, T)[1]
SecondOf(T) == RowsOf(messages, T)[2]

\* C11 (as claimed): in every state, deleteMessagesAfter(T, ts) leaves exactly
\* the rows that are not rows of T with created_at > ts; and whenever T holds
\* M1 and M2, saved in that order, deleteMessagesAfter(T, M1.created_at) leaves
\* the list of T as [M1].
C11_TrimLeavesFirst ==
    \A T \in KnownThreads :
        /\ \A ts \in CreatedAts : TrimsExactly(MessagesNotAfter(T, ts), T, ts)
        /\ Len(RowsOf(messages, T)) = 2
              => ListMessagesIn(MessagesNotAfter(T, FirstOf(T).created_at),
                                T, DefaultLimit, 0) = <<FirstOf(T)>>

\* C11 (amended): deleteMessagesAfter(T, ts) leaves exactly the rows that are
\* not rows of T with created_at > ts, and a step of it changes the store to
\* that; whenever T holds M1 and M2, saved in that order, the call with
\* M1.created_at leaves the list of T as [M1] if M2.created_at > M1.created_at,
\* and leaves M2 in the thread otherwise.
C11_TrimExclusive ==
    /\ [](\A T \in KnownThreads :
            /\ \A ts \in CreatedAts : TrimsExactly(MessagesNotAfter(T, ts), T, ts)
            /\ Len(RowsOf(messages, T)) = 2
                  => LET after == MessagesNotAfter(T, FirstOf(T).created_at)
                     IN  IF SecondOf(T).created_at > FirstOf(T).created_at
                         THEN ListMessagesIn(after, T, DefaultLimit, 0) = <<FirstOf(T)>>
                         ELSE SecondOf(T) \in Rows(after))
    /\ [][\A T \in KnownThreads, ts \in CreatedAts :
            DeleteMessagesAfter(T, ts) => TrimsExactly(messages', T, ts)]_vars

\* C11 witness: two rows were saved at different times and only the first,
\* the earlier one, is left.
C11_Witness ==
    /\ nextId = 3
    /\ Len(messages) = 1
    /\ messages[1].id = 1
    /\ messages[1].created_at < now

\* C12: saveMessage for a thread id that is not stored fails and stores
\* nothing; every stored message belongs to a stored thread in every state;
\* and the finish step of a turn whose thread was deleted meanwhile saves no
\* row.
C12_NoOrphanMessages ==
    /\ [](\A m \in Rows(messages) : \E th \in Rows(threads) : th.id = m.thread_id)
    /\ [](\A n \in 1..Len(ThreadName), r \in StoreRoles :
            (\A th \in Rows(threads) : th.id # ThreadId(n))
                => /\ ~saveMessage(ThreadId(n), r, StoreText, 0).ok
                   /\ saveMessage(ThreadId(n), r, StoreText, 0).messages = messages)
    /\ [][\A t \in Turns :
            (/\ turns[t].pc = "generating"
             /\ turns'[t].pc = "done"
             /\ \A th \in Rows(threads) : th.id # turns[t].threadId)
                => messages' = messages /\ turns'[t].asstMsg = 0]_vars

\* C12 witness: a turn saved its user message, its thread was deleted while it
\* generated, and it completed with a reply that was not stored.
C12_Witness ==
    \E t \in Turns :
        /\ turns[t].pc = "done"
        /\ turns[t].userMsg # 0
        /\ turns[t].text = <<"ok">>
        /\ turns[t].asstMsg = 0
        /\ \A th \in Rows(threads) : th.id # turns[t].threadId

\* The only sheet of the workbooks of SpecBook.
TheSheet(wb) == wb.Sheets["Sheet1"]

\* What one getRange of a single address reads in workbook wb.
ReadCell(wb, cell) == getRangeIn(wb, cell, "")

\* C13 (as claimed): in every state, for every cell address and every string,
\* number or boolean v, an updateCell(cell, v) that returns reports updated = v
\* and a getRange of that address in the file it leaves returns exactly v;
\* and a stored date cell is read as its ISO-8601 string.
C13_WriteReadRoundTrip ==
    /\ \A cell \in BookCells, v \in BookValues \ {JsNull} :
          LET res == updateCell(cell, v, "")
          IN  res.ok => /\ res.updated = v
                        /\ ReadCell(res.workbook, cell).ok
                        /\ ReadCell(res.workbook, cell).values = <<<<v>>>>
    /\ \A k \in AllCellStrings :
          TheSheet(workbook).cells[k].t = "d"
              => ReadCell(workbook, k).values = <<<<JsString("2024-01-02T00:00:00.000Z")>>>>

\* The strings that name a cell of the grid, in any spelling.
IsAddress(cell) == ~EncodeThrows(decode_cell(cell)) /\ decode_cell(cell).r >= 0

\* C14 (as claimed): in every state, for every cell address, an
\* updateCell(cell, null) that returns leaves a file in which getRange of that
\* address returns null and every other cell reads as it did before.
C14_NullWriteRemoves ==
    \A cell \in {c \in BookCells : IsAddress(c)} :
        LET res == updateCell(cell, JsNull, "")
        IN  res.ok =>
              /\ ReadCell(res.workbook, cell).ok
              /\ ReadCell(res.workbook, cell).values = <<<<JsNull>>>>
              /\ \A k \in AllCellStrings :
                    decode_cell(k) # decode_cell(cell)
                        => ReadCell(res.workbook, k) = ReadCell(workbook, k)

\* The addresses of the used range ref.
RefAddresses(ref) == {decode_cell(k) : k \in {c \in AllCellStrings : InRef(c, ref)}}

Least(S) == CHOOSE x \in S : \A y \in S : x <= y
Greatest(S) == CHOOSE x \in S : \A y \in S : x >= y

\* The smallest rectangle that contains every address of S.
BoundingBox(S) ==
    [s |-> [r |-> Least({a.r : a \in S}), c |-> Least({a.c : a \in S})],
     e |-> [r |-> Greatest({a.r : a \in S}), c |-> Greatest({a.c : a \in S})]]

\* C15: in every state, for every cell and value, an updateCell that returns
\* leaves a used range that contains every address of the used range before;
\* for a non-null value it is the smallest rectangle containing the previous
\* used range and the written address (the written address alone when there
\* was no used range), and for null it is the used range before.
C15_UsedRangeGrows ==
    \A cell \in BookCells, v \in BookValues :
        LET res    == updateCell(cell, v, "")
            before == TheSheet(workbook).ref
            after  == TheSheet(res.workbook).ref
        IN  res.ok =>
              /\ RefAddresses(before) \subseteq RefAddresses(after)
              /\ v = JsNull => after = before
              /\ v # JsNull =>
                    /\ after # NoString
                    /\ decode_range(after) =
                          BoundingBox(RefAddresses(before) \cup {decode_cell(cell)})

\* A sheet that had no used range, after a write to E2 and then one to F7.
C15_Witness ==
    /\ TheSheet(workbook).ref = <<"E", "2", ":", "F", "7">>
    /\ TheSheet(workbook).cells[E2] # NoCell
    /\ TheSheet(workbook).cells[F7] # NoCell

\* The ranges read in SpecBook: a square, a wide one, one that leaves the
\* populated cells, and a single address.
BookRanges ==
    {<<"A", "1", ":", "B", "2">>, <<"A", "1", ":", "C", "2">>,
     <<"E", "6", ":", "F", "7">>, E2}

\* The normalized value at row r, column c (zero-based) of a sheet, null when
\* the address holds no cell.
ValueAt(sheet, r, c) ==
    LET k == CHOOSE key \in AllCellStrings : decode_cell(key) = [r |-> r, c |-> c]
    IN  IF sheet.cells[k] = NoCell THEN JsNull ELSE normalizeCellValue(sheet.cells[k])

\* C16: in every state, for every range and for the first sheet, named or
\* not, getRange returns one row per row of the range and one entry per
\* column, rows outer, each entry the normalized value at its address or null
\* when the address is unpopulated; on the sample workbook as seeded,
\* getRange("A1:B2") is [["Item", "Quantity"], ["Widget", 5]].
C16_DenseGrid ==
    /\ \A range \in BookRanges, sheetName \in BookSheets :
          LET res  == getRange(range, sheetName)
              rg   == decode_range(range)
              rows == rg.e.r - rg.s.r + 1
              cols == rg.e.c - rg.s.c + 1
          IN  /\ res.ok
              /\ Len(res.values) = rows
              /\ \A i \in 1..rows :
                    /\ Len(res.values[i]) = cols
                    /\ \A j \in 1..cols :
                          res.values[i][j] =
                              ValueAt(TheSheet(workbook), rg.s.r + i - 1, rg.s.c + j - 1)
    /\ workbook = SeedWorkbook
          => getRange(<<"A", "1", ":", "B", "2">>, "").values =
                << <<JsString("Item"), JsString("Quantity")>>,
                   <<JsString("Widget"), JsNumber("5")>> >>

\* The sample workbook after a write to F7: E6:F7 reads the seed's last note,
\* two unpopulated addresses and the value written.
C16_Witness ==
    /\ TheSheet(workbook).cells[F7] = CellOf(JsNumber("7"))
    /\ getRange(<<"E", "6", ":", "F", "7">>, "").values =
          << <<JsString("Out of Stock"), JsNull>>, <<JsNull, JsNumber("7")>> >>

\* The title of the thread the page has open.
OpenTitle ==
    LET hits == {i \in 1..Len(threads) : threads[i].id = client.threadId}
    IN  IF hits = {} THEN NoString ELSE threads[CHOOSE i \in hits : TRUE].title

\* The first user message of the open thread with newlines as spaces and
\* surrounding whitespace removed.
OpenFlat == Trim(ReplaceNewlines(FirstUserText(client.chat)))

HasTerminator(s) == \E i \in 1..Len(s) : IsTerminator(s[i])

\* The text before the first terminator, surrounding whitespace removed.
FirstSentence(s) == Trim(SubSeq(s, 1, FirstTerminator(s) - 1))

IsPrefix(a, b) == Len(a) <= Len(b) /\ a = SubSeq(b, 1, Len(a))

\* C17 (as claimed): once the summarizer has run, the title is never empty,
\* and when the first user message contains a terminator the title is the text
\* before the first terminator, or the placeholder when that text is empty.
C17_FirstSentence ==
    client.titleGenerated =>
        /\ OpenTitle # <<>>
        /\ HasTerminator(OpenFlat) =>
              OpenTitle = IF FirstSentence(OpenFlat) = <<>> THEN Placeholder
                          ELSE FirstSentence(OpenFlat)

\* C17 (amended): once the summarizer has run, the title is never empty, and
\* when the first user message contains a terminator the title is the text
\* before the first terminator if that has at most 50 characters (the
\* placeholder if it is empty), and otherwise a prefix of it of at most 50
\* characters.
C17_FirstSentenceCapped ==
    client.titleGenerated =>
        /\ OpenTitle # <<>>
        /\ HasTerminator(OpenFlat) /\ Len(FirstSentence(OpenFlat)) <= TitleLimit =>
              OpenTitle = IF FirstSentence(OpenFlat) = <<>> THEN Placeholder
                          ELSE FirstSentence(OpenFlat)
        /\ HasTerminator(OpenFlat) /\ Len(FirstSentence(OpenFlat)) > TitleLimit =>
              /\ Len(OpenTitle) <= TitleLimit
              /\ IsPrefix(OpenTitle, FirstSentence(OpenFlat))

\* The sample text has been summarized to "Hello, how are you today".
C17_Witness ==
    /\ client.titleGenerated
    /\ FirstUserText(client.chat) = TwoSentences
    /\ OpenTitle = SubSeq(TwoSentences, 1, 24)

\* C18 (as claimed): once the summarizer has run on a first user message of
\* more than 50 characters without a terminator, the title has at most 50
\* characters and is the text up to a whitespace boundary: a prefix of the
\* text that is followed in it by whitespace or by nothing.
C18_NoWordSplit ==
    /\ client.titleGenerated
    /\ ~HasTerminator(OpenFlat)
    /\ Len(FirstUserText(client.chat)) > TitleLimit
    => /\ Len(OpenTitle) <= TitleLimit
       /\ IsPrefix(OpenTitle, OpenFlat)
       /\ Len(OpenTitle) < Len(OpenFlat) => IsSpace(OpenFlat[Len(OpenTitle) + 1])

\* The title effect passes its guards in this step.
SummarizerRuns == client.pc # "none" /\ ~client.titleGenerated /\ client'.titleGenerated

\* C19 (as claimed): the summarizer runs on a thread only while the thread
\* still has the title it was created with, that is once per thread: a step
\* of the summarizer never meets a title that was derived or set by a rename
\* before.
C19_SummarizerOnce == [][SummarizerRuns => OpenTitle = <<"New Chat">>]_vars

\* C20 (as claimed): when the regeneration that follows the edit of a stored
\* user message M has failed, M holds the new content, no row that was in the
\* thread at edit time with created_at later than M's is left, and no
\* assistant row has been added since the edit.
C20_FailedRegenTruncated ==
    \A t \in Turns :
        (/\ turns[t].origin = "reload"
         /\ turns[t].pc = "failed"
         /\ client.edited.at # 0)
            => LET rows == getMessagesByThread(turns[t].threadId)
               IN  /\ \E m \in Rows(rows) :
                         m.id = client.edited.id /\ m.content = client.edited.content
                   /\ \A m \in Rows(rows) :
                         m.id < client.edited.horizon
                             => m.created_at <= client.edited.at
                   /\ \A m \in Rows(rows) :
                         m.role = "assistant" => m.id < client.edited.horizon

\* A request enters the route in this step with a user message whose insert fails.
UserWriteFails(t) ==
    /\ turns[t].pc = "idle"
    /\ turns'[t].pc # "idle"
    /\ PersistsUserMessage(turns'[t].last)
    /\ ~saveMessage(turns'[t].threadId, "user", turns'[t].last.content, 0).ok

\* The finish callback runs in this step with a text whose insert fails.
AssistantWriteFails(t) ==
    /\ turns[t].pc = "generating"
    /\ turns'[t].pc = "done"
    /\ ~SkipsEmptyText(turns[t].text)
    /\ ~saveMessage(turns[t].threadId, "assistant", turns[t].text, 0).ok

\* A turn that has failed only ends: it does not go on to generate.
FailedTurnEnds(t) == turns[t].pc = "failed" => turns'[t].pc \in {"failed", "idle"}

\* C21 (as claimed): a step in which the insert of the user message or of the
\* assistant message fails stores nothing and leaves the call answered with a
\* failure (status 500, not 200), and a turn whose user message was not saved
\* never generates.
C21_WriteFailureSurfaced ==
    [][\A t \in Turns :
          /\ UserWriteFails(t) \/ AssistantWriteFails(t)
                => messages' = messages /\ turns'[t].status = 500
          /\ UserWriteFails(t) => turns'[t].pc = "failed"
          /\ FailedTurnEnds(t)]_vars

\* C21 (amended): a step in which the insert of the user message fails stores
\* nothing, answers the call with status 500 and the turn never generates; a
\* step in which the insert of the assistant message fails stores nothing and
\* the call stays answered with status 200 and no error: the failure is
\* caught in the finish callback and not surfaced. Neither write is retried.
C21_UserWriteFailureSurfaced ==
    [][\A t \in Turns :
          /\ UserWriteFails(t)
                => /\ messages' = messages
                   /\ turns'[t].status = 500
                   /\ turns'[t].pc = "failed"
                   /\ turns'[t].error = "Failed to persist user message"
          /\ AssistantWriteFails(t)
                => /\ messages' = messages
                   /\ turns'[t].status = 200
                   /\ turns'[t].error = ""
                   /\ turns'[t].asstMsg = 0
          /\ FailedTurnEnds(t)]_vars

\* A request on a thread that is not stored has been answered 500 without a
\* row saved.
C21_Witness ==
    \E t \in Turns :
        /\ turns[t].pc = "failed"
        /\ turns[t].status = 500
        /\ turns[t].last.role = "user"
        /\ turns[t].threadId \notin ThreadIdsOf(threads)
        /\ turns[t].userMsg = 0

\* C22 (as claimed): on a store whose schema is the one getDb creates, every
\* table the prepared statements name exists, so getStatements returns and
\* createThread can run; and a saveMessage on a stored thread succeeds and
\* getMessagesByThread then lists the saved row, with its content, as the
\* last row of the thread.
C22_FreshStoreWorks ==
    schema = SchemaTables =>
        /\ StatementTables \subseteq schema
        /\ GetStatementsOk
        /\ \A T \in ThreadIdsOf(threads) :
              LET saved == saveMessage(T, "user", StoreText, 0)
                  rows  == ListMessagesIn(saved.messages, T, DefaultLimit, 0)
              IN  /\ saved.ok
                  /\ rows # <<>>
                  /\ \E i \in 1..Len(rows) :
                        rows[i].id = saved.message.id /\ rows[i].content = StoreText

\* The ids of the rows getMessagesByThread lists for T out of msgs, in order.
ListedIds(msgs, T) ==
    LET rows == ListMessagesIn(msgs, T, DefaultLimit, 0)
    IN  [i \in 1..Len(rows) |-> rows[i].id]

\* C23: in every state, for every id, updateMessage(id, content) leaves as
\* many rows as before, the row with that id differs from before in its
\* content only, every other row is as before, and every thread lists the
\* same ids at the same positions; and a step of updateMessage changes no
\* thread.
C23_UpdateChangesContentOnly ==
    /\ [](\A id \in KnownIds :
            LET after == MessagesUpdated(id, NewContent)
            IN  /\ Len(after) = Len(messages)
                /\ \A i \in 1..Len(messages) :
                      /\ after[i].id = messages[i].id
                      /\ after[i].thread_id = messages[i].thread_id
                      /\ after[i].role = messages[i].role
                      /\ after[i].created_at = messages[i].created_at
                      /\ after[i].content =
                            IF messages[i].id = id THEN NewContent
                            ELSE messages[i].content
                /\ \A T \in KnownThreads :
                      ListedIds(after, T) = ListedIds(messages, T))
    /\ [][messages' # messages /\ Len(messages') = Len(messages)
            => threads' = threads /\ nextId' = nextId]_vars

\* The first of two messages of a thread has been edited after time passed.
C23_Witness ==
    /\ Len(messages) = 2
    /\ messages[1].content = NewContent
    /\ messages[2].content = StoreText
    /\ messages[1].thread_id = messages[2].thread_id
    /\ messages[1].created_at < now

\* The position of the row with this id in the list of thread T, 0 when the
\* list does not hold it.
PositionOf(id, T) ==
    LET rows == getMessagesByThread(T)
        hits == {i \in 1..Len(rows) : rows[i].id = id}
    IN  IF hits = {} THEN 0 ELSE CHOOSE i \in hits : TRUE

\* C24: within every single turn the user message is stored when the
\* generation starts, and the assistant message of the turn is listed after
\* the user message of the turn, also when other turns run on the same
\* thread at the same time.
C24_UserBeforeAssistant ==
    \A t \in ConcurrentTurns :
        turns[t].pc \in {"generating", "done"} =>
            /\ turns[t].userMsg # 0
            /\ PositionOf(turns[t].userMsg, turns[t].threadId) # 0
            /\ turns[t].asstMsg # 0 =>
                  PositionOf(turns[t].userMsg, turns[t].threadId)
                      < PositionOf(turns[t].asstMsg, turns[t].threadId)

\* Two turns on one thread have stored U1, U2, A2, A1: the reply to the first
\* request does not follow its user message, and the second user message is
\* followed by its own reply and then by the reply to the first.
C24_Witness ==
    \E t, u \in ConcurrentTurns :
        /\ t # u
        /\ turns[t].pc = "done" /\ turns[u].pc = "done"
        /\ turns[t].threadId = turns[u].threadId
        /\ LET rows == getMessagesByThread(turns[t].threadId)
           IN  /\ Len(rows) = 4
               /\ rows[1].id = turns[t].userMsg
               /\ rows[2].id = turns[u].userMsg
               /\ rows[3].id = turns[u].asstMsg
               /\ rows[4].id = turns[t].asstMsg
               /\ rows[1].created_at < rows[2].created_at


\* C25: updateCell takes no lock and checks no version, so the document a
\* writer serializes is the one it loaded with its one cell changed: every
\* other cell of the file reads after the write as it read in that writer's
\* load, whatever another writer stored in between.
C25_LaterWriteOverwrites ==
    [][\A w \in Writers :
          (writers[w].pc = "loaded" /\ writers'[w].pc = "written") =>
              \A k \in {E2, F2} \ {writers[w].cell} :
                  ReadCell(workbook', k) = ReadCell(writers[w].loaded, k)]_vars

\* Both writers loaded the sample workbook, w1 wrote E2, then w2 wrote F2:
\* the file holds w2's value and E2 reads as in the sample again.
C25_Witness ==
    /\ writers["w1"].pc = "written" /\ writers["w1"].cell = E2
    /\ writers["w2"].pc = "written" /\ writers["w2"].cell = F2
    /\ ReadCell(workbook, E2) = ReadCell(SeedWorkbook, E2)
    /\ ReadCell(workbook, E2) # ReadCell(updateCellIn(SeedWorkbook, E2, writers["w1"].value, "").workbook, E2)
    /\ ReadCell(workbook, F2) # ReadCell(SeedWorkbook, F2)

\* The user rows of a thread, oldest first.
UserRows(threadId) ==
    LET IsUser(m) == m.role = "user" IN SelectSeq(getMessagesByThread(threadId), IsUser)

\* The request of reload() enters the route in this step, after the edit of
\* a stored user message.
ReloadPosts ==
    /\ client.pc = "reload"
    /\ client'.pc = "waiting"
    /\ client.edited.at # 0

\* C26 (as claimed): the request that reload() sends after handleSaveEdit,
\* whose last message is the edited user message M of the store, persists no
\* user message: the thread has as many user rows after the step as before
\* it, and M is still the last of them.
C26_ReloadAddsNoUserRow ==
    [][ReloadPosts =>
          /\ Len(UserRows(client.threadId)') = Len(UserRows(client.threadId))
          /\ UserRows(client.threadId)' # <<>>
          /\ UserRows(client.threadId)'[Len(UserRows(client.threadId)')].id = client.edited.id]_vars

\* The PATCH request of handleSaveEdit is answered ok in this step.
EditAccepted == client.pc = "ready" /\ client'.pc = "edit_delete"

\* C27 (as claimed): a user message sent through the chat route is stored
\* under the id the page holds for it, and after an edit request answered ok
\* the store holds a row with the id of the edited message and the new
\* content.
C27_SentUnderClientId ==
    [][/\ \A t \in Turns :
             (/\ client'.pc = "waiting"
              /\ turns'[t].origin = "send"
              /\ turns'[t].userMsg # 0)
                 => client'.chat[Len(client'.chat)].id = turns'[t].userMsg
       /\ EditAccepted =>
             \E m \in Rows(messages') :
                 m.id = client'.edited.id /\ m.content = client'.edited.content]_vars

\* The confirmAction invocations the page shows.
ShownConfirmations ==
    {inv \in UNION {Rows(client.chat[i].invocations) : i \in 1..Len(client.chat)} :
        inv.name = "confirmAction" /\ inv.status = "needs_confirmation"}

RowsOutside(msgs, T) ==
    LET Other(m) == m.thread_id # T IN SelectSeq(msgs, Other)

\* C29 (as claimed): in every state, for every thread T and every id, a
\* PATCH or a DELETE request on /threads/T/messages with that id leaves the
\* rows of every other thread as they are.
C29_RequestStaysInThread ==
    \A T \in KnownThreads, id \in KnownIds :
        /\ RowsOutside(PatchMessagesRoute(T, [id |-> id, content |-> NewContent]), T)
              = RowsOutside(messages, T)
        /\ RowsOutside(DeleteMessagesRoute(T, [id |-> id, afterId |-> 0]), T)
              = RowsOutside(messages, T)

\* C30: in every state, a call of updateCell with the file missing or with a
\* sheet name the workbook lacks fails; a call that fails does not reach the
\* write and leaves the stored workbook, cells and used ranges, as it is; and
\* a step in which a call fails changes neither the workbook nor the presence
\* of the file.
C30_FailsBeforeWrite ==
    /\ [](\A cell \in FailureCells, value \in FailureValues, sheetName \in FailureSheets :
            LET res == updateCell(cell, value, sheetName)
            IN  /\ (~fileExists \/ (sheetName # "" /\ sheetName \notin DOMAIN workbook.Sheets))
                      => ~res.ok
                /\ ~res.ok => ~res.written /\ res.workbook = workbook)
    /\ [][\A w \in Writers :
             (writers'[w] # writers[w] /\ writers'[w].pc = "failed")
                 => fileExists' = fileExists /\ workbook' = workbook]_vars

\* One call failed on the missing file, the file was added, and another call
\* failed on a sheet the workbook lacks: the file holds the sample workbook.
C30_Witness ==
    /\ writers["w1"].message = "Missing XLSX file"
    /\ writers["w2"].message = "Sheet not found"
    /\ writers["w2"].sheetName = "Nope"
    /\ fileExists
    /\ workbook = SeedWorkbook

=============================================================================
